---- MODULE Spec2Model ----
(***************************************************************************)
(* Verification model of the transaction pipeline of marketplace-tx-js:    *)
(* the nonce calculation (support/nonce/util.js), the two nonce managers   *)
(* (support/nonce/inmemory.js, support/nonce/manager.js over the locking   *)
(* in-memory store), the transaction builders (support/tx.js) and the      *)
(* sender (support/sender.js in its two revisions).                        *)
(*                                                                         *)
(* The specifications share the variables:                                 *)
(*   SpecCalc    calculateNonce applied to every bounded input;            *)
(*   Spec        concurrent callers of one nonce manager on one address;   *)
(*   SpecSend    one send / sendChain / sendPlatformCoin call end to end;  *)
(*   SpecStore, SpecRelease  the stores and the older release call;        *)
(*   SpecWait    one waitForMine call;                                     *)
(*   SpecDetails getTransactionStatus applied to every bounded input;      *)
(*   SpecAccounts a nonce manager called with several address spellings;   *)
(*   SpecErrors  mapError applied to every bounded error, twice.           *)
(***************************************************************************)
EXTENDS Integers, Sequences, FiniteSets, TLC

VARIABLES
  \* ---- node view served by the AccountInspector stub (fixed per behaviour)
  txCount,      \* web3.eth.getTransactionCount(address)
  pending,      \* nonces under txpool.inspect().pending[address]
  queued,       \* nonces under txpool.inspect().queued[address]
  \* ---- nonce manager and its store (one address)
  variant,      \* "inmemory" (InMemoryNonceManager) or "lock" (NonceManager)
  objs,         \* heap of stored nonce objects: object id -> set of nonces
  store,        \* this.store[address]: an object id, or NoObj when absent
  locked,       \* this.locked[address] of the locking store (watchdog armed)
  \* ---- callers of the nonce manager (Spec)
  pc,           \* position of each caller inside its current operation
  ref,          \* the object a caller got from store.get
  arg,          \* the nonces a caller is releasing
  ret,          \* the nonce the caller's last getNonceForAccount returned
  mine,         \* history: nonces returned to the caller and not yet given back
  heldAt,       \* history: the last returned nonce was held by a caller then
  overlap,      \* history: callers, and "clear", that overlapped the caller's last acquire
  serial,       \* history: TRUE while no two operations have overlapped
  failed,       \* history: the caller's last acquire failed holding the lock
  cleared,      \* history: clearAccounts ran and no acquire has returned since
  given,        \* history: the nonce a caller got, then gave back, with no other call between
  \* ---- calculateNonce inputs and result (SpecCalc)
  calcStored,
  calcOut,
  \* ---- one sender call (SpecSend): a record, see SendInit
  snd,
  \* ---- the key-value store and its callers (SpecStore): a record, see StoreInit
  kv,
  \* ---- one waitForMine call (SpecWait): a record, see WaitInit
  wfm,
  \* ---- one getTransactionStatus call (SpecDetails): a record, see DetailsInit
  td,
  \* ---- a nonce manager called with several spellings of the addresses
  \* (SpecAccounts): a record, see AccountsInit
  acc,
  \* ---- one error given to mapError (SpecErrors): a record, see ErrorsInit
  errs

nodeVars == <<txCount, pending, queued>>
storeVars == <<variant, objs, store, locked>>
procVars == <<pc, ref, arg, ret, mine, heldAt, overlap, serial, failed, cleared, given>>
calcVars == <<calcStored, calcOut>>
vars == <<txCount, pending, queued, variant, objs, store, locked,
          pc, ref, arg, ret, mine, heldAt, overlap, serial, failed, cleared,
          given,
          calcStored, calcOut, snd, kv, wfm, td, acc, errs>>

-----------------------------------------------------------------------------
(* Bounds *)

\* largest nonce in a stored set or mempool view given to calculateNonce
MaxNonce == 3
\* largest confirmed transaction count of the stub node
MaxTxCount == 1
\* most pending transactions of the address in the stub mempool
MaxPending == 1

NoNonce == -1
NoObj == -1

-----------------------------------------------------------------------------
(* support/nonce/util.js *)

SetMax(S, floor) == CHOOSE m \in S \cup {floor} : \A x \in S \cup {floor} : x <= m

\* the while loop of calculateNonce: from n, stop at the first nonce that is
\* not known, or past maxKnownNonce
RECURSIVE ScanGap(_, _, _)
ScanGap(n, known, maxKnown) ==
  IF n <= maxKnown /\ n \in known THEN ScanGap(n + 1, known, maxKnown) ELSE n

\* a bug of the scan: starts at the stored maximum instead of txCount
calculateNonce_noGapFill(stored, count, pend, que) ==
  LET acquired == {n \in stored : n >= count}
      known == acquired \cup pend \cup que
      maxKnown == SetMax(known, count)
      nextNonce == IF known = {} THEN count ELSE maxKnown + 1
  IN [nextNonce |-> nextNonce, acquiredNonces |-> acquired \cup {nextNonce}]

\* a bug of the filter: the stored nonces are dropped instead of kept
calculateNonce_forgetStored(stored, count, pend, que) ==
  LET acquired == {}
      known == acquired \cup pend \cup que
      maxKnown == SetMax(known, count)
      nextNonce == ScanGap(count, known, maxKnown)
  IN [nextNonce |-> nextNonce, acquiredNonces |-> acquired \cup {nextNonce}]

calculateNonce(stored, count, pend, que) ==
  LET acquired == {n \in stored : n >= count}
      known == acquired \cup pend \cup que
      maxKnown == SetMax(known, count)
      nextNonce == ScanGap(count, known, maxKnown)
  IN [nextNonce |-> nextNonce, acquiredNonces |-> acquired \cup {nextNonce}]

-----------------------------------------------------------------------------
(* SpecCalc: calculateNonce on every bounded input *)

Nonces == 0..MaxNonce

CalcInit ==
  /\ txCount \in 0..(MaxNonce + 1)
  /\ pending \in SUBSET Nonces
  /\ queued \in SUBSET Nonces
  /\ calcStored \in SUBSET Nonces
  /\ calcOut = [nextNonce |-> NoNonce, acquiredNonces |-> {}]
  /\ variant = "inmemory"
  /\ objs = <<>>
  /\ store = NoObj
  /\ locked = FALSE
  /\ pc = <<>> /\ ref = <<>> /\ arg = <<>> /\ ret = <<>>
  /\ mine = <<>> /\ heldAt = <<>> /\ overlap = <<>> /\ serial = TRUE
  /\ failed = <<>> /\ cleared = FALSE /\ given = <<>> /\ kv = <<>> /\ wfm = <<>> /\ td = <<>> /\ acc = <<>> /\ errs = <<>>
  /\ snd = <<>>

Calculate ==
  /\ calcOut.nextNonce = NoNonce
  /\ calcOut' = calculateNonce(calcStored, txCount, pending, queued)
  /\ UNCHANGED <<nodeVars, storeVars, procVars, calcStored, snd, kv, wfm, td, acc, errs>>

CalcNext == Calculate

SpecCalc == CalcInit /\ [][CalcNext]_vars

\* the least nonce from txCount upwards that is in none of the three sets
LeastVacant(stored, count, pend, que) ==
  CHOOSE n \in count..(MaxNonce + 2) :
    /\ n \notin stored \cup pend \cup que
    /\ \A m \in count..(n - 1) : m \in stored \cup pend \cup que

\* C4: calculateNonce returns the least nonce n >= txCount that is in none of
\* stored, pending and queued, and returns as the new stored set exactly the
\* stored nonces >= txCount plus that nonce.
C4_LeastVacantNonce ==
  calcOut.nextNonce # NoNonce =>
    /\ calcOut.nextNonce = LeastVacant(calcStored, txCount, pending, queued)
    /\ calcOut.acquiredNonces =
         {n \in calcStored : n >= txCount} \cup {calcOut.nextNonce}

\* a gap below the stored maximum was filled and mined nonces were dropped
C4_Witness ==
  /\ calcOut.nextNonce # NoNonce
  /\ \E n \in calcStored : n < txCount
  /\ \E n \in calcStored \cup pending : n > calcOut.nextNonce
  /\ calcOut.nextNonce > txCount


-----------------------------------------------------------------------------
(* The stored nonce objects.  store.get hands out the stored object itself, *)
(* so a caller that deletes a key changes the object other callers hold.    *)

Procs == {"p1", "p2"}

\* most nonces a stored object holds: no acquire starts beyond it
MaxHeld == 2
\* most nonces one caller holds at a time
MaxMine == 1

ObjIds == 0..(Cardinality(Procs) - 1)

StoredSet == IF store = NoObj THEN {} ELSE objs[store]

Referenced(st, rf) == {st} \cup {rf[p] : p \in DOMAIN rf}

\* objects nobody references any more are forgotten
Collect(o, st, rf) ==
  [i \in ObjIds |-> IF i \in Referenced(st, rf) THEN o[i] ELSE {}]

\* the object a caller allocates: the first id no other caller still holds
OthersRefs(p) == {ref[q] : q \in Procs \ {p}}

FreshObj(p) == CHOOSE i \in ObjIds :
  /\ i \notin OthersRefs(p)
  /\ \A j \in ObjIds : j < i => j \in OthersRefs(p)

AllHeld == UNION {mine[p] : p \in Procs}

\* size of the largest nonce object in the heap
LargestObj == CHOOSE k \in 0..MaxHeld :
  /\ \E i \in ObjIds : Cardinality(objs[i]) = k
  /\ \A i \in ObjIds : Cardinality(objs[i]) <= k

AcquirePcs == {"im_reading", "locking", "reading", "computing"}

Busy(p) == pc[p] # "idle"

\* history kept when caller p begins any operation: the result of its last
\* getNonceForAccount is forgotten
BeginCall(p) ==
  /\ serial' = (serial /\ \A q \in Procs \ {p} : ~Busy(q))
  /\ ret' = [ret EXCEPT ![p] = NoNonce]
  /\ heldAt' = [heldAt EXCEPT ![p] = FALSE]
  /\ failed' = [failed EXCEPT ![p] = FALSE]
  /\ cleared' = cleared

\* no caller is in a run of its own calls
NoGiven == [phase |-> "none", nonce |-> NoNonce]

\* history kept when caller p begins a clear
BeginOp(p) ==
  /\ BeginCall(p)
  /\ overlap' = [q \in Procs |-> IF q = p THEN {} ELSE overlap[q] \ {p}]
  /\ given' = [q \in Procs |-> NoGiven]

\* history kept when caller p begins a release of the nonces S: the caller
\* gives back the nonce it has just got
BeginRelease(p, S) ==
  /\ BeginCall(p)
  /\ overlap' = [q \in Procs |-> IF q = p THEN {} ELSE overlap[q] \ {p}]
  /\ given' = [q \in Procs |->
       IF q = p /\ given[p].phase \in {"got", "again"} /\ S = {given[p].nonce}
       THEN [phase |-> "back", nonce |-> given[p].nonce] ELSE NoGiven]

\* history kept when caller p begins getNonceForAccount: the calls in flight
\* overlap it
BeginAcquireCall(p) ==
  /\ BeginCall(p)
  /\ Cardinality(mine[p]) < MaxMine
  /\ overlap' = [q \in Procs |->
       IF q = p THEN {r \in Procs \ {p} : pc[r] \in AcquirePcs}
       ELSE IF pc[q] \in AcquirePcs THEN overlap[q] \cup {p}
       ELSE overlap[q] \ {p}]
  /\ given' = [q \in Procs |->
       IF q = p /\ given[p].phase = "back" THEN given[p] ELSE NoGiven]

\* the same, while the stored objects stay within MaxHeld nonces
BeginAcquire(p) ==
  /\ BeginAcquireCall(p)
  /\ LargestObj + Cardinality({q \in Procs : pc[q] \in AcquirePcs}) < MaxHeld

\* history kept when the accounts are cleared: nothing is held any more; an
\* acquire in flight is marked as overlapped by the clear
Cleared ==
  /\ ret' = [q \in Procs |-> NoNonce]
  /\ mine' = [q \in Procs |-> {}]
  /\ heldAt' = [q \in Procs |-> FALSE]
  /\ overlap' = [q \in Procs |->
       IF pc[q] \in AcquirePcs THEN overlap[q] \cup {"clear"} ELSE {}]
  /\ cleared' = TRUE
  /\ given' = [q \in Procs |-> NoGiven]

\* history kept when getNonceForAccount returns nonce n to caller p
Returned(p, n) ==
  /\ ret' = [ret EXCEPT ![p] = n]
  /\ heldAt' = [heldAt EXCEPT ![p] = (n \in AllHeld)]
  /\ mine' = [mine EXCEPT ![p] = @ \cup {n}]
  /\ cleared' = FALSE
  /\ given' = [q \in Procs |->
       IF q = p /\ \A r \in Procs \ {p} : pc[r] = "idle"
       THEN [phase |-> IF given[p].phase = "back" THEN "again" ELSE "got",
             nonce |-> n]
       ELSE NoGiven]

-----------------------------------------------------------------------------
(* support/nonce/inmemory.js: InMemoryNonceManager *)

\* getNonceForAccount up to the await of the two node reads
IM_getNonceForAccount(p) ==
  /\ variant = "inmemory" /\ pc[p] = "idle"
  /\ BeginAcquire(p)
  /\ pc' = [pc EXCEPT ![p] = "im_reading"]
  /\ UNCHANGED <<nodeVars, storeVars, ref, arg, mine, calcVars, kv, snd, wfm, td, acc, errs>>

\* a node read rejects: the call rejects, the store is untouched
IM_readFails(p) ==
  /\ variant = "inmemory" /\ pc[p] = "im_reading"
  /\ pc' = [pc EXCEPT ![p] = "idle"]
  /\ UNCHANGED <<nodeVars, storeVars, ref, arg, ret, mine, heldAt, overlap,
                 serial, failed, cleared, given, calcVars, kv, snd, wfm, td, acc, errs>>

\* the synchronous read - calculate - write after the node reads
IM_calculateAndStore(p) ==
  /\ variant = "inmemory" /\ pc[p] = "im_reading"
  /\ LET r == calculateNonce(StoredSet, txCount, pending, queued)
         id == FreshObj(p)
     IN /\ store' = id
        /\ objs' = Collect([objs EXCEPT ![id] = r.acquiredNonces], id, ref)
        /\ Returned(p, r.nextNonce)
  /\ pc' = [pc EXCEPT ![p] = "idle"]
  /\ UNCHANGED <<nodeVars, variant, locked, ref, arg, overlap, serial, failed,
                 calcVars, kv, snd, wfm, td, acc, errs>>

\* a release that deletes nothing
Deleted_none(S) == {}

\* a release that stops after the first of the listed nonces
Deleted_first(S) == IF S = {} THEN {} ELSE {CHOOSE n \in S : \A m \in S : n <= m}

\* the nonces one release call deletes before anything else runs: every
\* listed one, in a loop without an await (_.each / nonces.forEach)
Deleted(S) == S

\* _.unset(this.store, [address, nonce]) for each nonce of S
IM_unset(S) ==
  IF store = NoObj THEN objs ELSE [objs EXCEPT ![store] = @ \ Deleted(S)]

IM_releaseAccountNonce(p, n) ==
  /\ variant = "inmemory" /\ pc[p] = "idle" /\ n \in mine[p]
  /\ BeginRelease(p, {n})
  /\ objs' = IM_unset({n})
  /\ mine' = [mine EXCEPT ![p] = @ \ {n}]
  /\ UNCHANGED <<nodeVars, variant, store, locked, pc, ref, arg, calcVars, kv, snd, wfm, td, acc, errs>>

IM_releaseAccountNonces(p, S) ==
  /\ variant = "inmemory" /\ pc[p] = "idle" /\ S \subseteq mine[p]
  /\ S # {}
  /\ BeginRelease(p, S)
  /\ objs' = IM_unset(S)
  /\ mine' = [mine EXCEPT ![p] = @ \ S]
  /\ UNCHANGED <<nodeVars, variant, store, locked, pc, ref, arg, calcVars, kv, snd, wfm, td, acc, errs>>

IM_clearAccounts(p) ==
  /\ variant = "inmemory" /\ pc[p] = "idle"
  /\ store' = NoObj
  /\ objs' = Collect(objs, NoObj, ref)
  /\ serial' = (serial /\ \A q \in Procs \ {p} : ~Busy(q))
  /\ Cleared
  /\ UNCHANGED <<nodeVars, variant, locked, pc, ref, arg, failed, calcVars, kv,
                 snd, wfm, td, acc, errs>>


-----------------------------------------------------------------------------
(* support/nonce.js: the in-memory store with lock(key) *)

\* lock(key) once the key is free: arms the watchdog timer
Store_lock == locked' = TRUE

\* release(key): clears the timer, whoever armed it
Store_release == locked' = FALSE

\* put(key, value): replaces the value and releases the key
Store_put(id) == store' = id /\ Store_release

\* clear(): empties the store; keys() is read after the reset, so it is
\* empty and no lock is released
Store_clear == store' = NoObj /\ locked' = locked

\* the watchdog timer armed by lock(key) fires: release(key)
Watchdog ==
  /\ variant = "lock" /\ locked
  /\ Store_release
  /\ UNCHANGED <<nodeVars, variant, objs, store, procVars, calcVars, kv, snd, wfm, td, acc, errs>>

-----------------------------------------------------------------------------
(* support/nonce/manager.js: NonceManager *)

\* getNonceForAccount is called: it starts waiting for store.lock(address)
L_getNonceForAccount(p) ==
  /\ variant = "lock" /\ pc[p] = "idle"
  /\ BeginAcquire(p)
  /\ pc' = [pc EXCEPT ![p] = "locking"]
  /\ UNCHANGED <<nodeVars, storeVars, ref, arg, mine, calcVars, kv, snd, wfm, td, acc, errs>>

\* store.lock resolves
L_lockAcquired(p) ==
  /\ variant = "lock" /\ pc[p] = "locking" /\ ~locked
  /\ Store_lock
  /\ pc' = [pc EXCEPT ![p] = "reading"]
  /\ UNCHANGED <<nodeVars, variant, objs, store, ref, arg, ret, mine, heldAt,
                 overlap, serial, failed, cleared, given, calcVars, kv, snd, wfm, td, acc, errs>>

\* store.lock gives up after LOCK_ACQUIRE_TIMEOUT: the call rethrows
L_lockTimeout(p) ==
  /\ variant = "lock" /\ pc[p] = "locking" /\ locked
  /\ pc' = [pc EXCEPT ![p] = "idle"]
  /\ UNCHANGED <<nodeVars, storeVars, ref, arg, ret, mine, heldAt, overlap,
                 serial, failed, cleared, given, calcVars, kv, snd, wfm, td, acc, errs>>

\* the catch block without its release: the error is only rethrown
L_catch_rethrowOnly == locked' = locked

\* the catch block of getNonceForAccount: await this.store.release(address),
\* then the error is rethrown
L_catch == Store_release

\* getNonceForAccount rejects from its catch block: no nonce is returned
L_rejects(p) ==
  /\ L_catch
  /\ failed' = [failed EXCEPT ![p] = TRUE]
  /\ pc' = [pc EXCEPT ![p] = "idle"]
  /\ cleared' = cleared /\ given' = given

\* a node read (transaction count or txpool inspect) rejects
L_readFails(p) ==
  /\ variant = "lock" /\ pc[p] = "reading"
  /\ L_rejects(p)
  /\ UNCHANGED <<nodeVars, variant, objs, store, ref, arg, ret, mine, heldAt,
                 overlap, serial, calcVars, kv, snd, wfm, td, acc, errs>>

\* store.get rejects (a store that can fail, as the stubbed one of the tests)
L_storeGetFails(p) ==
  /\ variant = "lock" /\ pc[p] = "reading"
  /\ L_rejects(p)
  /\ UNCHANGED <<nodeVars, variant, objs, store, ref, arg, ret, mine, heldAt,
                 overlap, serial, calcVars, kv, snd, wfm, td, acc, errs>>

\* store.put rejects: nothing was written and put released nothing
L_storePutFails(p) ==
  /\ variant = "lock" /\ pc[p] = "computing"
  /\ L_rejects(p)
  /\ LET rf == [ref EXCEPT ![p] = NoObj]
     IN ref' = rf /\ objs' = Collect(objs, store, rf)
  /\ UNCHANGED <<nodeVars, variant, store, arg, ret, mine, heldAt,
                 overlap, serial, calcVars, kv, snd, wfm, td, acc, errs>>

\* the node reads resolved; storedNonces = await this.store.get(address)
L_storeGet(p) ==
  /\ variant = "lock" /\ pc[p] = "reading"
  /\ ref' = [ref EXCEPT ![p] = store]
  /\ pc' = [pc EXCEPT ![p] = "computing"]
  /\ UNCHANGED <<nodeVars, storeVars, arg, ret, mine, heldAt, overlap, serial, failed, cleared, given,
                 calcVars, kv, snd, wfm, td, acc, errs>>

\* pickBy, gap scan, assignedNonces[nextNonce] = true, store.put
L_calculateAndPut(p) ==
  /\ variant = "lock" /\ pc[p] = "computing"
  /\ LET storedNonces == IF ref[p] = NoObj THEN {} ELSE objs[ref[p]]
         r == calculateNonce(storedNonces, txCount, pending, queued)
         id == FreshObj(p)
         rf == [ref EXCEPT ![p] = NoObj]
     IN /\ Store_put(id)
        /\ ref' = rf
        /\ objs' = Collect([objs EXCEPT ![id] = r.acquiredNonces], id, rf)
        /\ Returned(p, r.nextNonce)
  /\ pc' = [pc EXCEPT ![p] = "idle"]
  /\ UNCHANGED <<nodeVars, variant, arg, overlap, serial, failed, calcVars, kv, snd, wfm, td, acc, errs>>

\* releaseAccountNonce / releaseAccountNonces up to the await of store.get
L_releaseStart(p, S) ==
  /\ variant = "lock" /\ pc[p] = "idle" /\ S \subseteq mine[p] /\ S # {}
  /\ BeginRelease(p, S)
  /\ ref' = [ref EXCEPT ![p] = store]
  /\ arg' = [arg EXCEPT ![p] = S]
  /\ mine' = [mine EXCEPT ![p] = @ \ S]
  /\ pc' = [pc EXCEPT ![p] = "releasing"]
  /\ UNCHANGED <<nodeVars, storeVars, calcVars, kv, snd, wfm, td, acc, errs>>

L_releaseAccountNonce(p, n) == L_releaseStart(p, {n})

L_releaseAccountNonces(p, S) == L_releaseStart(p, S)

\* if the value is an object: delete the keys from it, then store.put it back
L_deleteAndPut(p) ==
  /\ variant = "lock" /\ pc[p] = "releasing"
  /\ LET rf == [ref EXCEPT ![p] = NoObj]
     IN /\ ref' = rf
        /\ IF ref[p] # NoObj
           THEN /\ Store_put(ref[p])
                /\ objs' = Collect([objs EXCEPT ![ref[p]] = @ \ Deleted(arg[p])],
                                   ref[p], rf)
           ELSE /\ UNCHANGED <<store, locked>>
                /\ objs' = Collect(objs, store, rf)
  /\ arg' = [arg EXCEPT ![p] = {}]
  /\ pc' = [pc EXCEPT ![p] = "idle"]
  /\ UNCHANGED <<nodeVars, variant, ret, mine, heldAt, overlap, serial, failed, cleared, given,
                 calcVars, kv, snd, wfm, td, acc, errs>>

\* clearAccounts up to the await of store.keys()
L_clearAccounts(p) ==
  /\ variant = "lock" /\ pc[p] = "idle"
  /\ BeginOp(p)
  /\ pc' = [pc EXCEPT ![p] = "clearing"]
  /\ UNCHANGED <<nodeVars, storeVars, ref, arg, mine, calcVars, kv, snd, wfm, td, acc, errs>>

\* await this.store.clear()
L_storeClear(p) ==
  /\ variant = "lock" /\ pc[p] = "clearing"
  /\ Store_clear
  /\ objs' = Collect(objs, NoObj, ref)
  /\ Cleared
  /\ pc' = [pc EXCEPT ![p] = "idle"]
  /\ UNCHANGED <<nodeVars, variant, ref, arg, serial, failed, calcVars, kv, snd, wfm, td, acc, errs>>

-----------------------------------------------------------------------------
(* Spec: callers of one nonce manager on one address, stub node view *)

Init ==
  /\ txCount \in 0..MaxTxCount
  /\ \E np \in 0..MaxPending :
       /\ pending = {txCount + i : i \in 0..(np - 1)}
       /\ queued \in {{}, {txCount + np + 1}}
  /\ variant \in {"inmemory", "lock"}
  /\ objs = [i \in ObjIds |-> {}]
  /\ store = NoObj
  /\ locked = FALSE
  /\ pc = [p \in Procs |-> "idle"]
  /\ ref = [p \in Procs |-> NoObj]
  /\ arg = [p \in Procs |-> {}]
  /\ ret = [p \in Procs |-> NoNonce]
  /\ mine = [p \in Procs |-> {}]
  /\ heldAt = [p \in Procs |-> FALSE]
  /\ overlap = [p \in Procs |-> {}]
  /\ serial = TRUE
  /\ failed = [p \in Procs |-> FALSE]
  /\ cleared = FALSE
  /\ given = [p \in Procs |-> NoGiven]
  /\ calcStored = {}
  /\ calcOut = [nextNonce |-> NoNonce, acquiredNonces |-> {}]
  /\ snd = <<>>
  /\ kv = <<>> /\ wfm = <<>> /\ td = <<>> /\ acc = <<>> /\ errs = <<>>

Next ==
  \/ \E p \in Procs :
       \/ IM_getNonceForAccount(p)
       \/ IM_readFails(p)
       \/ IM_calculateAndStore(p)
       \/ \E n \in mine[p] : IM_releaseAccountNonce(p, n)
       \/ \E S \in SUBSET mine[p] : IM_releaseAccountNonces(p, S)
       \/ IM_clearAccounts(p)
       \/ L_getNonceForAccount(p)
       \/ L_lockAcquired(p)
       \/ L_lockTimeout(p)
       \/ L_readFails(p)
       \/ L_storeGetFails(p)
       \/ L_storeGet(p)
       \/ L_storePutFails(p)
       \/ L_calculateAndPut(p)
       \/ \E n \in mine[p] : L_releaseAccountNonce(p, n)
       \/ \E S \in SUBSET mine[p] : L_releaseAccountNonces(p, S)
       \/ L_deleteAndPut(p)
       \/ L_clearAccounts(p)
       \/ L_storeClear(p)
  \/ Watchdog

Spec == Init /\ [][Next]_vars


-----------------------------------------------------------------------------
(* SpecRelease: one releaseAccountNonces call of a caller that holds        *)
(* several nonces, beside the acquires and releases of a second caller.     *)

Releaser == "p1"

\* the stored set after n acquires in a row on an empty store
RECURSIVE StoredAfter(_)
StoredAfter(n) ==
  IF n = 0 THEN {}
  ELSE calculateNonce(StoredAfter(n - 1), txCount, pending, queued).acquiredNonces

\* the nonces the releasing caller holds when the run starts
Listed == StoredAfter(MaxMine + 1)

ReleaseInit ==
  /\ txCount \in 0..MaxTxCount
  /\ \E np \in 0..MaxPending :
       /\ pending = {txCount + i : i \in 0..(np - 1)}
       /\ queued \in {{}, {txCount + np + 1}}
  /\ variant \in {"inmemory", "lock"}
  /\ objs = [i \in ObjIds |-> IF i = 0 THEN Listed ELSE {}]
  /\ store = 0
  /\ locked = FALSE
  /\ pc = [p \in Procs |-> "idle"]
  /\ ref = [p \in Procs |-> NoObj]
  /\ arg = [p \in Procs |-> {}]
  /\ ret = [p \in Procs |-> NoNonce]
  /\ mine = [p \in Procs |-> IF p = Releaser THEN Listed ELSE {}]
  /\ heldAt = [p \in Procs |-> FALSE]
  /\ overlap = [p \in Procs |-> {}]
  /\ serial = TRUE
  /\ failed = [p \in Procs |-> FALSE]
  /\ cleared = FALSE
  /\ given = [p \in Procs |-> NoGiven]
  /\ calcStored = {}
  /\ calcOut = [nextNonce |-> NoNonce, acquiredNonces |-> {}]
  /\ snd = <<>>
  /\ kv = <<>> /\ wfm = <<>> /\ td = <<>> /\ acc = <<>> /\ errs = <<>>

\* getNonceForAccount is called by the second caller
R_getNonceForAccount(p) ==
  /\ p # Releaser /\ pc[p] = "idle"
  /\ BeginAcquireCall(p)
  /\ pc' = [pc EXCEPT ![p] = IF variant = "inmemory" THEN "im_reading"
                             ELSE "locking"]
  /\ UNCHANGED <<nodeVars, storeVars, ref, arg, mine, calcVars, kv, snd, wfm, td, acc, errs>>

\* the one releaseAccountNonces call, of every nonce the caller holds
R_releaseAccountNonces ==
  /\ mine[Releaser] # {}
  /\ \/ IM_releaseAccountNonces(Releaser, mine[Releaser])
     \/ L_releaseAccountNonces(Releaser, mine[Releaser])

ReleaseNext ==
  \/ R_releaseAccountNonces
  \/ L_deleteAndPut(Releaser)
  \/ \E p \in Procs \ {Releaser} :
       \/ R_getNonceForAccount(p)
       \/ IM_readFails(p)
       \/ IM_calculateAndStore(p)
       \/ \E n \in mine[p] : IM_releaseAccountNonce(p, n)
       \/ L_lockAcquired(p)
       \/ L_readFails(p)
       \/ L_storeGet(p)
       \/ L_calculateAndPut(p)
       \/ \E n \in mine[p] : L_releaseAccountNonce(p, n)
       \/ L_deleteAndPut(p)
  \/ Watchdog

SpecRelease == ReleaseInit /\ [][ReleaseNext]_vars

-----------------------------------------------------------------------------
(* support/errors.js and the conversions between a nonce and its hex text *)

\* an error value: its class, and whether its text matches
\* /nonce|replacement\stransaction\sunderpriced|known\stransaction/
Err(cls, nonceText) == [cls |-> cls, nonceText |-> nonceText]

NoError == Err("none", FALSE)

\* the classes derived from CvcError
CvcErrorClasses ==
  {"CvcError", "InvalidNonceError", "FailedTxChainError", "NotDeployedError",
   "NoNetworkInContractError", "SignerSenderAddressMismatchError",
   "NotFoundError"}

\* a check that takes no error for a mapped one
instanceofCvcError_never(error) == FALSE

\* error instanceof CvcError
instanceofCvcError(error) == error.cls \in CvcErrorClasses

\* mapError builds a new InvalidNonceError around the error
Wraps(error) == ~instanceofCvcError(error) /\ error.nonceText

mapError(error) ==
  IF Wraps(error) THEN Err("InvalidNonceError", TRUE) ELSE error

\* nonce.toString(16)
RECURSIVE Digits16(_)
Digits16(n) ==
  IF n < 16 THEN <<n>> ELSE Append(Digits16(n \div 16), n % 16)

\* a raw transaction built without a nonce has no nonce property
Undefined == [digits |-> <<>>]

\* the nonce property withOptionalNonce gives a raw transaction: `0x${hex}`
withOptionalNonce(nonce) ==
  IF nonce = NoNonce THEN Undefined ELSE [digits |-> Digits16(nonce)]

RECURSIVE DigitsValue(_)
DigitsValue(d) ==
  IF Len(d) = 0 THEN 0
  ELSE 16 * DigitsValue(SubSeq(d, 1, Len(d) - 1)) + d[Len(d)]

NaN == -2

\* Number(nonce) of releaseAccountNonce: a hex text to its value, undefined to NaN
Number(h) == IF h.digits = <<>> THEN NaN ELSE DigitsValue(h.digits)

\* a hex text is a non-empty string, so it is truthy even for nonce 0
Truthy(h) == h.digits # <<>>

\* if (updatedTxOptions.nonce): an option of 0 counts as no option
OptionsNonceGiven(opt) == opt # NoNonce /\ opt # 0

-----------------------------------------------------------------------------
(* SpecSend: one send, sendPlatformCoin or sendChain call, from the builders *)
(* of support/tx.js through signing, submission and the receipt wait.  The   *)
(* call is the only user of the nonce manager, whose operations then act as  *)
(* single steps on the stored set of the address.                            *)

\* longest transaction chain
MaxChain == 3
\* largest nonce other callers hold in the store when the call starts
MaxSendStored == 2

With(u) == [f \in DOMAIN snd |-> IF f \in DOMAIN u THEN u[f] ELSE snd[f]]

Transactions(len) == [i \in 1..len |-> i]

Tail1(q) == IF Len(q) = 0 THEN q ELSE Tail(q)

IsChain == snd.kind = "sendChain"

sendFrame == <<nodeVars, variant, store, locked, procVars, calcVars, kv, wfm, td, acc, errs>>

PutStored(S) == objs' = [objs EXCEPT ![0] = S]

SendInit ==
  /\ txCount \in 0..MaxTxCount
  /\ \E np \in 0..MaxPending :
       /\ pending = {txCount + i : i \in 0..(np - 1)}
       /\ queued \in {{}, {txCount + np + 1}}
  /\ variant \in {"inmemory", "lock"}
  /\ store = 0
  /\ objs \in {[i \in ObjIds |-> IF i = 0 THEN S ELSE {}] :
                 S \in SUBSET (1..MaxSendStored)}
  /\ locked = FALSE
  /\ pc = <<>> /\ ref = <<>> /\ arg = <<>> /\ ret = <<>>
  /\ mine = <<>> /\ heldAt = <<>> /\ overlap = <<>> /\ serial = TRUE
  /\ failed = <<>> /\ cleared = FALSE /\ given = <<>> /\ kv = <<>> /\ wfm = <<>> /\ td = <<>> /\ acc = <<>> /\ errs = <<>>
  /\ calcStored = {}
  /\ calcOut = [nextNonce |-> NoNonce, acquiredNonces |-> {}]
  /\ \E rev \in {"promise", "async"},
        kind \in {"send", "sendPlatformCoin", "sendChain"},
        signTx \in BOOLEAN,
        opt \in {NoNonce, 0, MaxSendStored},
        len \in 1..MaxChain :
       /\ kind # "sendChain" => len = 1
       /\ snd = [rev |-> rev,         \* "promise": sender.js, "async": its later revision
                 kind |-> kind,
                 signTx |-> signTx,   \* a signing callback is given
                 optNonce |-> opt,    \* txOptions.nonce, NoNonce when absent
                 len |-> len,         \* number of transactions of the call
                 pc |-> "build",
                 nonce |-> NoNonce,   \* nonce of the entry being built
                 mode |-> "none",     \* where it came from: options, manager, none
                 late |-> FALSE,      \* a getNonceForAccount outlives its createTx
                 rawTransactions |-> <<>>,
                 unprocessedTransactions |->
                   IF kind = "sendChain" THEN Transactions(len) ELSE <<>>,
                 unprocessedRawTransactions |-> <<>>,
                 signed |-> <<>>,     \* the transactions handed to sendAndConfirmInOrder
                 signer |-> "idle",
                 signCalls |-> 0,
                 mismatch |-> 0,      \* history: first blob signed by another key
                 stored0 |-> objs[0], \* history: the stored set before the call
                 submitted |-> <<>>,  \* transactions handed to the node, in order
                 confirmed |-> {},    \* transactions with a successful receipt
                 error |-> NoError,
                 failedAt |-> "none",
                 failedStep |-> 0,
                 result |-> "pending",
                 rejection |-> [error |-> NoError, transactions |-> <<>>,
                                cause |-> NoError],
                 assigned |-> <<>>,   \* history: nonces the manager returned
                 released |-> {},     \* history: nonces given to a release call
                 pendingRel |-> {}]   \* releases called and not yet completed


\* the call rejects with error e, raised at stage `at`, without an error handler
Rejects(e, at) ==
  [pc |-> "done", result |-> "rejected", error |-> e, failedAt |-> at,
   failedStep |-> Len(snd.rawTransactions) + 1,
   rejection |-> [error |-> e, transactions |-> <<>>, cause |-> NoError]]

-----------------------------------------------------------------------------
(* support/tx.js: createTx, createPlatformCoinTransferTx, createTxChain *)

\* the nonce is taken from txOptions
B_optionsNonce ==
  /\ snd.pc = "build"
  /\ OptionsNonceGiven(snd.optNonce)
  /\ snd' = With([pc |-> "assemble", nonce |-> snd.optNonce, mode |-> "options"])
  /\ UNCHANGED <<objs, sendFrame>>

\* no option and assignedNonce false: the transaction gets no nonce
B_noNonce ==
  /\ snd.pc = "build"
  /\ ~OptionsNonceGiven(snd.optNonce) /\ ~snd.signTx
  /\ snd' = With([pc |-> "assemble", nonce |-> NoNonce, mode |-> "none"])
  /\ UNCHANGED <<objs, sendFrame>>

\* assignedNonce: nonceManager.getNonceForAccount(fromAddress) resolves
B_getNonceForAccount ==
  /\ snd.pc = "build"
  /\ ~OptionsNonceGiven(snd.optNonce) /\ snd.signTx
  /\ LET r == calculateNonce(StoredSet, txCount, pending, queued) IN
       /\ PutStored(r.acquiredNonces)
       /\ snd' = With([pc |-> "assemble", nonce |-> r.nextNonce,
                       mode |-> "manager",
                       assigned |-> Append(snd.assigned, r.nextNonce)])
  /\ UNCHANGED sendFrame

\* getNonceForAccount rejects (a node read fails): Promise.all rejects and the
\* outer catch rethrows mapError(error)
B_getNonceFails ==
  /\ snd.pc = "build"
  /\ ~OptionsNonceGiven(snd.optNonce) /\ snd.signTx
  /\ \E nonceText \in BOOLEAN :
       snd' = With(Rejects(mapError(Err("Error", nonceText)), "nonce"))
  /\ UNCHANGED <<objs, sendFrame>>

\* tx.contractInstance rejects, before or after the nonce is known: Promise.all
\* rejects at once; a getNonceForAccount still in flight goes on alone
B_instanceFails ==
  /\ snd.kind # "sendPlatformCoin"
  /\ snd.pc \in {"build", "assemble"}
  /\ LET inflight == /\ snd.pc = "build"
                     /\ ~OptionsNonceGiven(snd.optNonce) /\ snd.signTx
     IN snd' = [With(Rejects(mapError(Err("CvcError", FALSE)), "instance"))
                  EXCEPT !.late = inflight]
  /\ UNCHANGED <<objs, sendFrame>>

\* the getNonceForAccount left in flight by a rejected createTx resolves
B_lateAcquire ==
  /\ snd.late
  /\ LET r == calculateNonce(StoredSet, txCount, pending, queued) IN
       /\ PutStored(r.acquiredNonces)
       /\ snd' = With([late |-> FALSE,
                       assigned |-> Append(snd.assigned, r.nextNonce)])
  /\ UNCHANGED sendFrame

\* what a builder's catch block does to the stored set: release the nonce
\* the manager assigned
StoreAfterBuildError_keep(stored, nonce, mode) == stored

StoreAfterBuildError(stored, nonce, mode) ==
  IF mode = "manager" THEN stored \ {nonce} ELSE stored

\* createTransaction throws while assembling (argument encoding, an option
\* that cannot be formatted).  With a manager nonce the catch awaits its
\* release and throws mapError(error); otherwise nonceReleasePromise is a
\* promise, not a function, and calling it throws a TypeError
B_assembleFails ==
  /\ snd.pc = "assemble"
  /\ \E nonceText \in BOOLEAN :
       LET e == IF snd.mode = "manager"
                THEN mapError(Err("Error", nonceText))
                ELSE Err("TypeError", FALSE)
       IN snd' = [With(Rejects(e, "assemble")) EXCEPT
                    !.released = IF snd.mode = "manager"
                                 THEN @ \cup {snd.nonce} ELSE @]
  /\ PutStored(StoreAfterBuildError(StoredSet, snd.nonce, snd.mode))
  /\ UNCHANGED sendFrame

\* the raw transaction is returned; createTxChain goes on to the next entry;
\* after the last one sendTransactions copies the raw list
B_created ==
  /\ snd.pc = "assemble"
  /\ LET raw == [id |-> Len(snd.rawTransactions) + 1,
                 nonce |-> withOptionalNonce(snd.nonce)]
         raws == Append(snd.rawTransactions, raw)
     IN IF Len(raws) < snd.len
        THEN snd' = With([pc |-> "build", rawTransactions |-> raws])
        ELSE snd' = With([pc |-> IF snd.signTx THEN "sign" ELSE "send",
                          rawTransactions |-> raws,
                          unprocessedRawTransactions |->
                            IF IsChain THEN raws ELSE <<>>,
                          signed |-> IF snd.signTx THEN <<>>
                                     ELSE Transactions(snd.len)])
  /\ UNCHANGED <<objs, sendFrame>>


-----------------------------------------------------------------------------
(* support/sender.js (revision "promise") and its later revision ("async") *)

\* errors a signing callback rejects with; they reach the handlers unmapped
SignerErrors ==
  {Err("Error", FALSE), Err("Error", TRUE), Err("InvalidNonceError", TRUE)}

\* whether a failure at stage `at` (signing, submission, receipt wait) gets
\* to handleSendError.  send chains .catch(handleSendError) in both
\* revisions.  sendPlatformCoin does so in the promise revision; in the async
\* revision it wraps the call in try/catch without awaiting it, which catches
\* no rejection.  sendChain: the promise revision chains .catch after
\* sendAndConfirmInOrder; the async revision awaits only the signing inside
\* its try and returns the promise of sendAndConfirmInOrder unawaited
\* a chain whose signing failures skip the handler
HandlerCatches_sendOnly(rev, kind, at) ==
  CASE kind = "send" -> TRUE
    [] kind = "sendPlatformCoin" -> rev = "promise"
    [] kind = "sendChain" -> at # "sign" /\ rev = "promise"

HandlerCatches(rev, kind, at) ==
  CASE kind = "send" -> TRUE
    [] kind = "sendPlatformCoin" -> rev = "promise"
    [] kind = "sendChain" -> at = "sign" \/ rev = "promise"

\* the call failed with e at stage `at`, after Len(submitted) submissions
Failed(e, at) ==
  IF HandlerCatches(snd.rev, snd.kind, at)
  THEN [pc |-> "handleSendError", error |-> e, failedAt |-> at,
        failedStep |-> Len(snd.submitted)]
  ELSE [Rejects(e, at) EXCEPT !.failedStep = Len(snd.submitted)]

SignFailed(e) == Failed(e, "sign")

SendFailed(e, at) == Failed(e, at)

\* signTx(fromAddress, rawTransactions) is called, under the signing timeout
Sign_call ==
  /\ snd.pc = "sign"
  /\ snd' = With([pc |-> "signing", signer |-> "running",
                  signCalls |-> snd.signCalls + 1])
  /\ UNCHANGED <<objs, sendFrame>>

\* the check left out: every blob passes
assertSignerMatchesSender_skip(signerAddress, expectedFromAddress) == TRUE

\* assertSignerMatchesSender: the address recovered from the blob is compared
\* with the sender's; a blob that passes is returned, another one throws
assertSignerMatchesSender(signerAddress, expectedFromAddress) ==
  signerAddress = expectedFromAddress

\* the callback resolves in time.  bad: the blob signed with another key, 0
\* when every blob recovers to fromAddress; short: a chain signer returns one
\* blob fewer than asked.  The blobs are checked in order before any is sent
Sign_resolves ==
  /\ snd.pc = "signing"
  /\ \E bad \in 0..snd.len, short \in BOOLEAN :
       /\ short => IsChain
       /\ LET blobs == IF short THEN Transactions(snd.len - 1)
                       ELSE Transactions(snd.len)
              signerAddress(i) == IF i = bad THEN "other" ELSE "from"
              thrown == {i \in 1..Len(blobs) :
                           ~assertSignerMatchesSender(signerAddress(i), "from")}
              first == IF bad \in 1..Len(blobs) THEN bad ELSE 0
          IN IF thrown # {}
             THEN snd' = [With(SignFailed(
                      Err("SignerSenderAddressMismatchError", FALSE)))
                      EXCEPT !.signer = "done", !.mismatch = first]
             ELSE snd' = With([pc |-> "send", signed |-> blobs,
                               signer |-> "done", mismatch |-> first])
  /\ UNCHANGED <<objs, sendFrame>>

\* the callback's promise rejects in time
Sign_rejects ==
  /\ snd.pc = "signing"
  /\ \E e \in SignerErrors :
       snd' = [With(SignFailed(e)) EXCEPT !.signer = "done"]
  /\ UNCHANGED <<objs, sendFrame>>

\* util.timeout: the timer wins the race; the callback keeps running
Sign_timeout ==
  /\ snd.pc = "signing"
  /\ snd' = With(SignFailed(Err("TimeoutError", FALSE)))
  /\ UNCHANGED <<objs, sendFrame>>

\* a late callback whose blob is still handed to the node
Signer_settlesLate_submits ==
  /\ snd.signer = "running" /\ snd.pc # "signing"
  /\ snd' = With([signer |-> "done", submitted |-> Append(snd.submitted, 1)])
  /\ UNCHANGED <<objs, sendFrame>>

\* the callback settles after the timeout: the race is over, nothing follows
Signer_settlesLate ==
  /\ snd.signer = "running" /\ snd.pc # "signing"
  /\ snd' = With([signer |-> "done"])
  /\ UNCHANGED <<objs, sendFrame>>

\* ---- single send and sendPlatformCoin

\* sendRawTransaction / signAndSend hands the transaction to the node
Send_call ==
  /\ ~IsChain /\ snd.pc = "send"
  /\ snd' = With([pc |-> "sending", submitted |-> <<1>>])
  /\ UNCHANGED <<objs, sendFrame>>

\* the node answers with the transaction hash: the call resolves
Send_accepted ==
  /\ ~IsChain /\ snd.pc = "sending"
  /\ snd' = With([pc |-> "done", result |-> "resolved"])
  /\ UNCHANGED <<objs, sendFrame>>

\* the node rejects the transaction: the error is mapped
Send_rejected ==
  /\ ~IsChain /\ snd.pc = "sending"
  /\ \E nonceText \in BOOLEAN :
       snd' = With(SendFailed(mapError(Err("Error", nonceText)), "send"))
  /\ UNCHANGED <<objs, sendFrame>>

\* the release rule of the single handleSendError
ReleaseOnSendError_always(nonce, error) == Truthy(nonce)

ReleaseOnSendError(nonce, error) ==
  Truthy(nonce) /\ error.cls # "InvalidNonceError"

\* handleSendError({ parameters, nonce: transaction.nonce }): the release is
\* awaited, then the error is rethrown
HandleSendError ==
  /\ ~IsChain /\ snd.pc = "handleSendError"
  /\ LET nonce == snd.rawTransactions[1].nonce
         rel == ReleaseOnSendError(nonce, snd.error)
     IN
       /\ PutStored(IF rel THEN StoredSet \ {Number(nonce)} ELSE StoredSet)
       /\ snd' = With([pc |-> "done", result |-> "rejected",
                       released |-> IF rel THEN snd.released \cup {Number(nonce)}
                                    ELSE snd.released,
                       rejection |-> [error |-> snd.error,
                                      transactions |-> <<>>,
                                      cause |-> NoError]])
  /\ UNCHANGED sendFrame

\* ---- sendChain

\* the reducer's turn for the next transaction: the promise of the previous
\* one has resolved, which it does with that transaction's receipt
sendAndConfirmReducer_noAwait(s) == s.pc \in {"send", "submitted"}

sendAndConfirmReducer_ready(s) == s.pc = "send"

\* sendAndConfirm(transaction): the next transaction goes to the node.  The
\* async revision shifts both unprocessed lists right after the call
Chain_submit ==
  /\ IsChain /\ sendAndConfirmReducer_ready(snd)
  /\ Len(snd.submitted) < Len(snd.signed)
  /\ LET shift == snd.rev = "async" IN
       snd' = With([pc |-> "submitted",
                    submitted |-> Append(snd.submitted,
                                         snd.signed[Len(snd.submitted) + 1]),
                    unprocessedTransactions |->
                      IF shift THEN Tail1(snd.unprocessedTransactions)
                      ELSE snd.unprocessedTransactions,
                    unprocessedRawTransactions |->
                      IF shift THEN Tail1(snd.unprocessedRawTransactions)
                      ELSE snd.unprocessedRawTransactions])
  /\ UNCHANGED <<objs, sendFrame>>

\* the node rejects the submitted transaction: the error is mapped
Chain_nodeRejects ==
  /\ IsChain /\ snd.pc = "submitted"
  /\ \E nonceText \in BOOLEAN :
       snd' = With(SendFailed(mapError(Err("Error", nonceText)), "send"))
  /\ UNCHANGED <<objs, sendFrame>>

\* waitForMine gets a receipt with a success status.  The promise revision
\* shifts both unprocessed lists now
Chain_mined ==
  /\ IsChain /\ snd.pc = "submitted"
  /\ LET shift == snd.rev = "promise" IN
       snd' = With([pc |-> "send",
                    confirmed |-> snd.confirmed
                                    \cup {snd.submitted[Len(snd.submitted)]},
                    unprocessedTransactions |->
                      IF shift THEN Tail1(snd.unprocessedTransactions)
                      ELSE snd.unprocessedTransactions,
                    unprocessedRawTransactions |->
                      IF shift THEN Tail1(snd.unprocessedRawTransactions)
                      ELSE snd.unprocessedRawTransactions])
  /\ UNCHANGED <<objs, sendFrame>>

\* the receipt has status 0: waitForMine throws Error('Tx failed')
Chain_txFailed ==
  /\ IsChain /\ snd.pc = "submitted"
  /\ snd' = With(SendFailed(Err("Error", FALSE), "receipt"))
  /\ UNCHANGED <<objs, sendFrame>>

\* no receipt within the attempts: getTransactionReceiptMined rejects with a
\* string
Chain_receiptTimeout ==
  /\ IsChain /\ snd.pc = "submitted"
  /\ snd' = With(SendFailed(Err("String", FALSE), "receipt"))
  /\ UNCHANGED <<objs, sendFrame>>

\* getTransactionReceipt rejects inside the poller: the promise of
\* getTransactionReceiptMined is never settled
Chain_receiptHangs ==
  /\ IsChain /\ snd.pc = "submitted"
  /\ snd' = With([pc |-> "stuck"])
  /\ UNCHANGED <<objs, sendFrame>>

\* every transaction of the signed list is confirmed: sendChain resolves
Chain_done ==
  /\ IsChain /\ snd.pc = "send"
  /\ Len(snd.submitted) = Len(snd.signed)
  /\ snd' = With([pc |-> "done", result |-> "resolved"])
  /\ UNCHANGED <<objs, sendFrame>>

\* the nonces the chain's handleSendError releases: of every unprocessed raw
\* transaction but the first when the error is an InvalidNonceError.  A raw
\* transaction without a nonce is not skipped: the release is called with
\* undefined, which deletes the key NaN
NoncesToRelease(raws, error) ==
  {Number(raws[i].nonce) :
     i \in {j \in 1..Len(raws) : j > 1 \/ error.cls # "InvalidNonceError"}}

\* the chain's handleSendError.  The promise revision starts each release in
\* a forEach callback it does not await: with the in-memory manager the
\* release is done within the call, with the lock-based manager it completes
\* later.  The async revision awaits releaseAccountNonces.  Then it throws
\* FailedTxChainError(unprocessedTransactions, error)
Chain_handleSendError ==
  /\ IsChain /\ snd.pc = "handleSendError"
  /\ LET rel == NoncesToRelease(snd.unprocessedRawTransactions, snd.error)
         deferred == snd.rev = "promise" /\ variant = "lock"
     IN
       /\ PutStored(IF deferred THEN StoredSet ELSE StoredSet \ rel)
       /\ snd' = With([pc |-> "done", result |-> "rejected",
                       released |-> snd.released \cup rel,
                       pendingRel |-> IF deferred THEN rel ELSE {},
                       rejection |-> [error |-> Err("FailedTxChainError", FALSE),
                                      transactions |-> snd.unprocessedTransactions,
                                      cause |-> snd.error]])
  /\ UNCHANGED sendFrame

\* a release started by the promise revision's forEach completes
Chain_releaseCompletes ==
  /\ \E n \in snd.pendingRel :
       /\ PutStored(StoredSet \ {n})
       /\ snd' = With([pendingRel |-> snd.pendingRel \ {n}])
  /\ UNCHANGED sendFrame

SendNext ==
  \/ B_optionsNonce \/ B_noNonce \/ B_getNonceForAccount \/ B_getNonceFails
  \/ B_instanceFails \/ B_lateAcquire \/ B_assembleFails \/ B_created
  \/ Sign_call \/ Sign_resolves \/ Sign_rejects \/ Sign_timeout
  \/ Signer_settlesLate
  \/ Send_call \/ Send_accepted \/ Send_rejected \/ HandleSendError
  \/ Chain_submit \/ Chain_nodeRejects \/ Chain_mined \/ Chain_txFailed
  \/ Chain_receiptTimeout \/ Chain_receiptHangs \/ Chain_done
  \/ Chain_handleSendError \/ Chain_releaseCompletes

SpecSend == SendInit /\ [][SendNext]_vars

-----------------------------------------------------------------------------
(* SpecStore: the in-memory key-value store and its callers.  Revision     *)
(* "lock" is the InMemory class of support/nonce.js whose lock(key) is a   *)
(* separate call; revision "getlock" is support/store/inmemory.js, whose   *)
(* get(key) waits for the key and locks it.                                *)

Keys == {"abc", "def"}
Callers == {"c1", "c2"}

\* values given to put: 0 (a falsy value) .. MaxValue
MaxValue == 1
\* Math.floor(LOCK_ACQUIRE_TIMEOUT / LOCK_CHECK_INTERVAL): sleeps of one lock
MaxAttempts == 2

Values == 0..MaxValue

\* history: the last call or timer that finished.  res is "ok", "timeout"
\* for a lock that gave up, "freed" for a put or release on a locked key
NoCall == [op |-> "none", key |-> "abc", res |-> "ok", val |-> NoObj]

Call(op, key, res, val) == [op |-> op, key |-> key, res |-> res, val |-> val]

StoreInit ==
  /\ txCount = 0 /\ pending = {} /\ queued = {}
  /\ variant = "lock"
  /\ objs = <<>> /\ store = NoObj /\ locked = FALSE
  /\ pc = <<>> /\ ref = <<>> /\ arg = <<>> /\ ret = <<>>
  /\ mine = <<>> /\ heldAt = <<>> /\ overlap = <<>> /\ serial = TRUE
  /\ failed = <<>> /\ cleared = FALSE /\ given = <<>>
  /\ calcStored = {}
  /\ calcOut = [nextNonce |-> NoNonce, acquiredNonces |-> {}]
  /\ snd = <<>> /\ wfm = <<>> /\ td = <<>> /\ acc = <<>> /\ errs = <<>>
  /\ \E rev \in {"lock", "getlock"} :
       kv = [rev |-> rev,
             store |-> [k \in Keys |-> NoObj],     \* this.store, NoObj: no entry
             locked |-> [k \in Keys |-> FALSE],    \* this.locked[key] holds a timer
             timer |-> [k \in Keys |-> FALSE],     \* that timer is armed
             pc |-> [c \in Callers |-> "idle"],    \* "sleeping" inside the lock loop
             key |-> [c \in Callers |-> "abc"],    \* the key a sleeping caller wants
             attempts |-> [c \in Callers |-> 0],
             holders |-> [k \in Keys |-> {}],      \* history: acquired, not freed since
             last |-> NoCall]

storeFrame == <<nodeVars, storeVars, procVars, calcVars, snd, wfm, td, acc, errs>>

\* the loop condition of lock: the key is taken for free when it is not
IsLocked_never(s, key) == FALSE

\* this.locked[key] as the lock loop and its final test read it
IsLocked(s, key) == s.locked[key]

\* lock arms no timer
ArmWatchdog_never == FALSE

\* this.locked[key] = setTimeout(() => this.release(key), LOCK_TIMEOUT)
ArmWatchdog == TRUE

\* this.store[key] || null: a missing entry and a falsy value both give null
StoreGet(s, key) ==
  IF s.store[key] = NoObj \/ s.store[key] = 0 THEN NoObj ELSE s.store[key]

\* release of every key: the lock state of the other keys is lost
StoreRelease_all(s, key) ==
  [s EXCEPT !.locked = [k \in Keys |-> FALSE],
            !.timer = [k \in Keys |-> FALSE],
            !.holders = [k \in Keys |-> {}]]

\* release(key): clearTimeout of the timer held in this.locked[key], then
\* the key is marked free (set to false, or deleted in revision getlock)
StoreRelease(s, key) ==
  [s EXCEPT !.locked[key] = FALSE,
            !.timer[key] = IF s.locked[key] THEN FALSE ELSE @,
            !.holders[key] = {}]

\* put(key, value): this.store[key] = value; this.release(key)
StorePut(s, key, value) == StoreRelease([s EXCEPT !.store[key] = value], key)

\* the operation that waits for the key: lock, or get in revision getlock
LockOp(s) == IF s.rev = "lock" THEN "lock" ELSE "get"

\* the key is free: the caller takes it and the watchdog is armed; the
\* locking get of revision getlock then returns the stored value
Acquire(s, c, key) ==
  [s EXCEPT !.locked[key] = TRUE,
            !.timer[key] = ArmWatchdog,
            !.holders[key] = @ \cup {c},
            !.pc[c] = "idle", !.attempts[c] = 0,
            !.last = Call(LockOp(s), key, "ok",
                          IF s.rev = "getlock" THEN StoreGet(s, key) ELSE NoObj)]

\* the wait loop of lock (of get in revision getlock) after att sleeps: take
\* the key if it is free, sleep once more while attempts are left, else throw
TryLock(s, c, key, att) ==
  IF ~IsLocked(s, key) THEN Acquire(s, c, key)
  ELSE IF att < MaxAttempts
  THEN [s EXCEPT !.pc[c] = "sleeping", !.key[c] = key, !.attempts[c] = att]
  ELSE [s EXCEPT !.pc[c] = "idle", !.attempts[c] = 0,
                 !.last = Call(LockOp(s), key, "timeout", NoObj)]

\* lock(key) is called: it runs up to its first sleep
S_lock(c, key) ==
  /\ kv.rev = "lock" /\ kv.pc[c] = "idle"
  /\ kv' = TryLock(kv, c, key, 0)
  /\ UNCHANGED storeFrame

\* a sleep of LOCK_CHECK_INTERVAL ends: the loop tests the key again
S_wake(c) ==
  /\ kv.pc[c] = "sleeping"
  /\ kv' = TryLock(kv, c, kv.key[c], kv.attempts[c] + 1)
  /\ UNCHANGED storeFrame

\* get(key) of revision lock: a plain read
S_get(c, key) ==
  /\ kv.rev = "lock" /\ kv.pc[c] = "idle"
  /\ kv' = [kv EXCEPT !.last = Call("get", key, "ok", StoreGet(kv, key))]
  /\ UNCHANGED storeFrame

\* get(key) of revision getlock: the lock loop, then the read
S_getLocking(c, key) ==
  /\ kv.rev = "getlock" /\ kv.pc[c] = "idle"
  /\ kv' = TryLock(kv, c, key, 0)
  /\ UNCHANGED storeFrame

S_put(c, key, value) ==
  /\ kv.pc[c] = "idle"
  /\ kv' = [StorePut(kv, key, value) EXCEPT
              !.last = Call("put", key,
                            IF kv.locked[key] THEN "freed" ELSE "ok", NoObj)]
  /\ UNCHANGED storeFrame

S_release(c, key) ==
  /\ kv.pc[c] = "idle"
  /\ kv' = [StoreRelease(kv, key) EXCEPT
              !.last = Call("release", key,
                            IF kv.locked[key] THEN "freed" ELSE "ok", NoObj)]
  /\ UNCHANGED storeFrame

\* the keys clear() releases.  Revision lock reads this.keys() after
\* this.store = {}, so it finds none; revision getlock takes the keys of
\* this.locked, the keys locked now
ClearReleases(s) ==
  IF s.rev = "lock" THEN {} ELSE {k \in Keys : s.locked[k]}

RECURSIVE ReleaseEach(_, _)
ReleaseEach(s, ks) ==
  IF ks = {} THEN s
  ELSE LET k == CHOOSE x \in ks : TRUE
       IN ReleaseEach(StoreRelease(s, k), ks \ {k})

\* clear(): this.store = {}, then the releases
S_clear(c) ==
  /\ kv.pc[c] = "idle"
  /\ LET emptied == [kv EXCEPT !.store = [k \in Keys |-> NoObj]]
     IN kv' = [ReleaseEach(emptied, ClearReleases(kv)) EXCEPT
                 !.last = Call("clear", "abc", "ok", NoObj)]
  /\ UNCHANGED storeFrame

\* the watchdog timer of a key fires after LOCK_TIMEOUT: this.release(key)
S_watchdog(key) ==
  /\ kv.timer[key]
  /\ kv' = [StoreRelease(kv, key) EXCEPT
              !.last = Call("watchdog", key, "freed", NoObj)]
  /\ UNCHANGED storeFrame

StoreNext ==
  \/ \E c \in Callers :
       \/ \E key \in Keys :
            \/ S_lock(c, key)
            \/ S_get(c, key)
            \/ S_getLocking(c, key)
            \/ \E value \in Values : S_put(c, key, value)
            \/ S_release(c, key)
       \/ S_wake(c)
       \/ S_clear(c)
  \/ \E key \in Keys : S_watchdog(key)

SpecStore == StoreInit /\ [][StoreNext]_vars

\* timers fire: a watchdog that stays armed goes off
SpecStoreLive ==
  SpecStore /\ \A key \in Keys : WF_vars(S_watchdog(key))

-----------------------------------------------------------------------------
(* SpecWait: one tx.waitForMine call: the promise of the submission, then   *)
(* tx.getTransactionReceiptMined polling tx.getTransactionReceipt.          *)

\* longest timeout given to waitForMine, in quarters of a second
MaxTimeoutQuarters == 6

\* the status field of a receipt: "0x0", "0x1", or no field at all
ReceiptStatuses == {"0x0", "0x1", "undefined"}

\* Number(receipt.status)
StatusNumber(status) ==
  CASE status = "0x0" -> 0
    [] status = "0x1" -> 1
    [] OTHER -> NaN

\* if (Number(receipt.status) === 0) throw new Error('Tx failed')
TxFailed(status) == StatusNumber(status) = 0

\* Math.ceil(timeout * (1000 / interval)) for a timeout of q quarter seconds
\* and the interval of 500 ms
AttemptLimit(q) == (q + 1) \div 2

\* errors the promise of the submission rejects with
SubmissionErrors == {Err("Error", FALSE), Err("InvalidNonceError", TRUE)}

WaitInit ==
  /\ txCount = 0 /\ pending = {} /\ queued = {}
  /\ variant = "inmemory"
  /\ objs = <<>> /\ store = NoObj /\ locked = FALSE
  /\ pc = <<>> /\ ref = <<>> /\ arg = <<>> /\ ret = <<>>
  /\ mine = <<>> /\ heldAt = <<>> /\ overlap = <<>> /\ serial = TRUE
  /\ failed = <<>> /\ cleared = FALSE /\ given = <<>>
  /\ calcStored = {}
  /\ calcOut = [nextNonce |-> NoNonce, acquiredNonces |-> {}]
  /\ snd = <<>> /\ kv = <<>> /\ td = <<>> /\ acc = <<>> /\ errs = <<>>
  /\ \E q \in 0..MaxTimeoutQuarters :
       wfm = [timeout |-> q,         \* the timeout argument, in quarter seconds
              pc |-> "send",         \* send, polling, sleeping, done, stuck
              attemptCount |-> 0,
              polls |-> 0,           \* history: getTransactionReceipt calls made
              result |-> "pending",  \* pending, resolved, rejected
              status |-> "none",     \* the status of the receipt obtained
              error |-> NoError]

waitFrame == <<nodeVars, storeVars, procVars, calcVars, snd, kv, td, acc, errs>>

W(u) == [f \in DOMAIN wfm |-> IF f \in DOMAIN u THEN u[f] ELSE wfm[f]]

\* await txSendPromise gives the hash; getTransactionReceiptMined starts the
\* poller, which calls getTransactionReceipt
W_submitted ==
  /\ wfm.pc = "send"
  /\ wfm' = W([pc |-> "polling", polls |-> 1])
  /\ UNCHANGED waitFrame

\* txSendPromise rejects: waitForMine rejects with its error
W_submissionRejects ==
  /\ wfm.pc = "send"
  /\ \E e \in SubmissionErrors :
       wfm' = W([pc |-> "done", result |-> "rejected", error |-> e])
  /\ UNCHANGED waitFrame

\* getTransactionReceipt yields a receipt: the poller resolves with it and
\* waitForMine checks its status
W_receipt ==
  /\ wfm.pc = "polling"
  /\ \E status \in ReceiptStatuses :
       IF TxFailed(status)
       THEN wfm' = W([pc |-> "done", result |-> "rejected", status |-> status,
                      error |-> Err("Error", FALSE)])
       ELSE wfm' = W([pc |-> "done", result |-> "resolved", status |-> status])
  /\ UNCHANGED waitFrame

\* getTransactionReceipt yields null: after attemptLimit retries the poller
\* rejects with a string, before that it sets a timer of 500 ms
W_noReceipt ==
  /\ wfm.pc = "polling"
  /\ IF wfm.attemptCount >= AttemptLimit(wfm.timeout)
     THEN wfm' = W([pc |-> "done", result |-> "rejected",
                    error |-> Err("String", FALSE)])
     ELSE wfm' = W([pc |-> "sleeping"])
  /\ UNCHANGED waitFrame

\* the timer fires: transactionReceiptAsync(resolve, reject, attemptCount + 1)
W_retry ==
  /\ wfm.pc = "sleeping"
  /\ wfm' = W([pc |-> "polling", attemptCount |-> wfm.attemptCount + 1,
               polls |-> wfm.polls + 1])
  /\ UNCHANGED waitFrame

\* getTransactionReceipt rejects: the rejection stays inside the poller, whose
\* caller holds a promise that neither resolve nor reject is called on
W_getReceiptRejects ==
  /\ wfm.pc = "polling"
  /\ wfm' = W([pc |-> "stuck"])
  /\ UNCHANGED waitFrame

WaitNext ==
  \/ W_submitted \/ W_submissionRejects \/ W_receipt \/ W_noReceipt
  \/ W_retry \/ W_getReceiptRejects

SpecWait == WaitInit /\ [][WaitNext]_vars

\* the node answers every call and every timer fires
SpecWaitLive == SpecWait /\ WF_vars(WaitNext)

-----------------------------------------------------------------------------
(* SpecDetails: support/transactionDetails.js, getTransactionStatus applied *)
(* to every bounded txpool.inspect result, transaction count and nonce.     *)

\* largest nonce in the inspected pool and in the question
MaxDetailNonce == 1

Accounts == {"a1", "a2"}

\* an address text: the account it names and its casing
Address(acct, form) == [acct |-> acct, form |-> form]

Addresses == {Address(a, f) : a \in Accounts, f \in {"lower", "checksum"}}

\* the node keys its pool by checksummed address
PoolKeys == {Address(a, "checksum") : a \in Accounts}

DetailNonces == 0..MaxDetailNonce

\* the address looked up as the caller wrote it
toChecksumAddress_asGiven(address) == address

\* ethUtil.toChecksumAddress(fromAddress)
toChecksumAddress(address) == Address(address.acct, "checksum")

\* _.get(txPoolInspectResult, [statusToFind, fromAddress, nonce])
transactionIsInStatus(result, statusToFind, fromAddress, nonce) ==
  /\ fromAddress \in DOMAIN result[statusToFind]
  /\ nonce \in result[statusToFind][fromAddress]

\* _.chain(txPoolStatuses).find(transactionIsInStatus).defaultTo(UNKNOWN)
getTransactionPoolStatus(result, fromAddress, nonce) ==
  IF transactionIsInStatus(result, "pending", fromAddress, nonce) THEN "pending"
  ELSE IF transactionIsInStatus(result, "queued", fromAddress, nonce)
  THEN "queued"
  ELSE "unknown"

\* getTransactionStatus(fromAddress, nonce) against a node whose
\* txpool.inspect answers with result, is unsupported, or fails otherwise,
\* and whose transaction count of the address is count
getTransactionStatus(inspect, result, count, fromAddress, nonce) ==
  IF inspect = "unsupported" THEN "unsupported"
  ELSE IF inspect = "error" THEN "thrown"
  ELSE LET transactionPoolStatus ==
             getTransactionPoolStatus(result, toChecksumAddress(fromAddress),
                                      nonce)
       IN IF transactionPoolStatus # "unknown" THEN transactionPoolStatus
          ELSE IF nonce < count THEN "mined" ELSE "unknown"

EmptyPool == [k \in PoolKeys |-> {}]

DetailsInit ==
  /\ txCount \in 0..(MaxDetailNonce + 1)
  /\ pending = {} /\ queued = {}
  /\ variant = "inmemory"
  /\ objs = <<>> /\ store = NoObj /\ locked = FALSE
  /\ pc = <<>> /\ ref = <<>> /\ arg = <<>> /\ ret = <<>>
  /\ mine = <<>> /\ heldAt = <<>> /\ overlap = <<>> /\ serial = TRUE
  /\ failed = <<>> /\ cleared = FALSE /\ given = <<>>
  /\ calcStored = {}
  /\ calcOut = [nextNonce |-> NoNonce, acquiredNonces |-> {}]
  /\ snd = <<>> /\ kv = <<>> /\ wfm = <<>> /\ acc = <<>> /\ errs = <<>>
  /\ \E inspect \in {"ok", "unsupported", "error"},
        pend \in [PoolKeys -> SUBSET DetailNonces],
        que \in [PoolKeys -> SUBSET DetailNonces],
        fromAddress \in Addresses,
        nonce \in DetailNonces :
       /\ inspect # "ok" => (pend = EmptyPool /\ que = EmptyPool)
       /\ td = [inspect |-> inspect,      \* how txpool.inspect answers
                result |-> [pending |-> pend, queued |-> que],
                fromAddress |-> fromAddress,
                nonce |-> nonce,
                status |-> "none"]        \* what the call returns

\* the call returns
D_getTransactionStatus ==
  /\ td.status = "none"
  /\ td' = [td EXCEPT !.status =
              getTransactionStatus(td.inspect, td.result, txCount,
                                   td.fromAddress, td.nonce)]
  /\ UNCHANGED <<nodeVars, storeVars, procVars, calcVars, snd, kv, wfm, acc,
                 errs>>

DetailsNext == D_getTransactionStatus

SpecDetails == DetailsInit /\ [][DetailsNext]_vars

-----------------------------------------------------------------------------
(* SpecAccounts: one nonce manager called, one call after another, with the *)
(* addresses of two accounts in either spelling, against a node whose       *)
(* txpool.inspect answers, is unsupported, or fails.  "inmemory" is         *)
(* InMemoryNonceManager over AccountInspector, "lock" is NonceManager.      *)

\* most calls of the manager in one behaviour
MaxAccountCalls == 3

\* the answer of txpool.inspect is an error other than "not supported"
InspectRejects_unsupportedToo(inspect) == inspect # "ok"

\* inspectTxPool rejects: an error whose message does not include
\* 'Method txpool_inspect not supported.'
InspectRejects(inspect) == inspect = "error"

\* result.pending[key] || {}
PoolEntry(subpool, key) == IF key \in DOMAIN subpool THEN subpool[key] ELSE {}

\* the key inspectTxPool looks the address up by: AccountInspector
\* checksums it, NonceManager uses it as given
InspectKey(manager, address) ==
  IF manager = "inmemory" THEN toChecksumAddress(address) ELSE address

\* inspectTxPool(address) when it resolves
inspectTxPool(manager, inspect, result, address) ==
  IF inspect = "unsupported" THEN [pending |-> {}, queued |-> {}]
  ELSE [pending |-> PoolEntry(result.pending, InspectKey(manager, address)),
        queued |-> PoolEntry(result.queued, InspectKey(manager, address))]

NoLast == [outcome |-> "none", address |-> Address("a1", "checksum"),
           nonce |-> NoNonce, stored |-> {}, fresh |-> TRUE, cause |-> "none"]

AccountsInit ==
  /\ txCount \in 0..MaxTxCount
  /\ pending = {} /\ queued = {}
  /\ variant = "inmemory"
  /\ objs = <<>> /\ store = NoObj /\ locked = FALSE
  /\ pc = <<>> /\ ref = <<>> /\ arg = <<>> /\ ret = <<>>
  /\ mine = <<>> /\ heldAt = <<>> /\ overlap = <<>> /\ serial = TRUE
  /\ failed = <<>> /\ cleared = FALSE /\ given = <<>>
  /\ calcStored = {}
  /\ calcOut = [nextNonce |-> NoNonce, acquiredNonces |-> {}]
  /\ snd = <<>> /\ kv = <<>> /\ wfm = <<>> /\ td = <<>> /\ errs = <<>>
  /\ \E manager \in {"inmemory", "lock"},
        inspect \in {"ok", "unsupported", "error"},
        pend \in [PoolKeys -> {{}, {txCount}}],
        que \in [PoolKeys -> {{}, {txCount + 2}}] :
       acc = [manager |-> manager,
              inspect |-> inspect,        \* how txpool.inspect answers
              result |-> [pending |-> pend, queued |-> que],
              store |-> [a \in Addresses |-> {}],   \* store[address] || {}
              locked |-> {},              \* keys locked in the store
              pc |-> "idle",
              address |-> Address("a1", "checksum"),  \* of the call in flight
              calls |-> 0,
              out |-> [a \in Accounts |-> {}],  \* history: nonces handed out
              last |-> NoLast]            \* history: how the last acquire ended

accountsFrame ==
  <<nodeVars, storeVars, procVars, calcVars, snd, kv, wfm, td, errs>>

A(u) == [f \in DOMAIN acc |-> IF f \in DOMAIN u THEN u[f] ELSE acc[f]]

\* getNonceForAccount(address) up to the await of the two node reads;
\* NonceManager has taken store.lock(address) by then
A_getNonceForAccount(address) ==
  /\ acc.pc = "idle" /\ acc.calls < MaxAccountCalls
  /\ acc.manager = "lock" => address \notin acc.locked
  /\ acc' = A([pc |-> "reading", address |-> address,
               calls |-> acc.calls + 1,
               locked |-> IF acc.manager = "lock"
                          THEN acc.locked \cup {address} ELSE acc.locked,
               last |-> NoLast])
  /\ UNCHANGED accountsFrame

\* the call rejects: NonceManager's catch block releases the key
A_rejects(cause) ==
  acc' = A([pc |-> "idle",
            locked |-> acc.locked \ {acc.address},
            last |-> [NoLast EXCEPT !.outcome = "rejected",
                                    !.address = acc.address,
                                    !.cause = cause]])

\* getTransactionCount rejects
A_countRejects ==
  /\ acc.pc = "reading"
  /\ A_rejects("count")
  /\ UNCHANGED accountsFrame

\* inspectTxPool rejects
A_inspectRejects ==
  /\ acc.pc = "reading"
  /\ InspectRejects(acc.inspect)
  /\ A_rejects("inspect")
  /\ UNCHANGED accountsFrame

\* both reads resolved: the stored nonces of the address are read, the nonce
\* calculated and the new set stored (store.put releases the key)
A_calculateAndStore ==
  /\ acc.pc = "reading"
  /\ ~InspectRejects(acc.inspect)
  /\ LET txPool == inspectTxPool(acc.manager, acc.inspect, acc.result,
                                 acc.address)
         storedNonces == acc.store[acc.address]
         r == calculateNonce(storedNonces, txCount, txPool.pending,
                             txPool.queued)
     IN acc' = A([pc |-> "idle",
                  store |-> [acc.store EXCEPT ![acc.address] = r.acquiredNonces],
                  locked |-> acc.locked \ {acc.address},
                  out |-> [acc.out EXCEPT ![acc.address.acct] =
                             @ \cup {r.nextNonce}],
                  last |-> [outcome |-> "returned",
                            address |-> acc.address,
                            nonce |-> r.nextNonce,
                            stored |-> storedNonces,
                            fresh |-> r.nextNonce \notin acc.out[acc.address.acct],
                            cause |-> "none"]])
  /\ UNCHANGED accountsFrame

\* releaseAccountNonce(address, nonce) of a nonce handed out for the account
A_releaseAccountNonce(address, nonce) ==
  /\ acc.pc = "idle" /\ acc.calls < MaxAccountCalls
  /\ nonce \in acc.out[address.acct]
  /\ acc' = A([calls |-> acc.calls + 1,
               store |-> [acc.store EXCEPT ![address] = @ \ Deleted({nonce})],
               locked |-> acc.locked \ {address},
               out |-> [acc.out EXCEPT ![address.acct] = @ \ {nonce}],
               last |-> NoLast])
  /\ UNCHANGED accountsFrame

AccountsNext ==
  \/ \E address \in Addresses :
       \/ A_getNonceForAccount(address)
       \/ \E nonce \in acc.out[address.acct] :
            A_releaseAccountNonce(address, nonce)
  \/ A_countRejects
  \/ A_inspectRejects
  \/ A_calculateAndStore

SpecAccounts == AccountsInit /\ [][AccountsNext]_vars

-----------------------------------------------------------------------------
(* SpecErrors: support/errors.js, mapError applied to every bounded error,  *)
(* and once more to its own result.  Errors are objects: a heap position    *)
(* stands for the object, so "the same error" is the same position.         *)

\* what a message says; the first three are what the pattern of mapError
\* looks for
NoncePhrases ==
  {"nonce", "replacement transaction underpriced", "known transaction"}

Phrases == NoncePhrases \cup {"out of gas"}

\* a piece of text: what it says and how it is written ("lower": as the
\* pattern spells it; "capital": with a capital letter, as in "Nonce too low")
Text(phrase, casing) == [phrase |-> phrase, casing |-> casing]

Texts == {Text(ph, c) : ph \in Phrases, c \in {"lower", "capital"}}

\* classes of errors that are not CvcErrors
RawClasses == {"Error", "TypeError"}

NoCause == 0

ErrorObject(cls, message, cause) ==
  [cls |-> cls, message |-> message, cause |-> cause]

\* String(error): `${name}: ${message}`
toString(error) == <<Text(error.cls, "capital"), error.message>>

\* /nonce|replacement\stransaction\sunderpriced|known\stransaction/.test(s):
\* the pattern has no i flag
regexTest(s) ==
  \E i \in DOMAIN s : s[i].phrase \in NoncePhrases /\ s[i].casing = "lower"

\* new InvalidNonceError(cause): super('Invalid nonce value', cause)
InvalidNonceError(cause) ==
  ErrorObject("InvalidNonceError", Text("nonce", "lower"), cause)

\* the error object as the sender's steps see it
Abstract(error) == Err(error.cls, regexTest(toString(error)))

ErrorsInit ==
  /\ txCount = 0 /\ pending = {} /\ queued = {}
  /\ variant = "inmemory"
  /\ objs = <<>> /\ store = NoObj /\ locked = FALSE
  /\ pc = <<>> /\ ref = <<>> /\ arg = <<>> /\ ret = <<>>
  /\ mine = <<>> /\ heldAt = <<>> /\ overlap = <<>> /\ serial = TRUE
  /\ failed = <<>> /\ cleared = FALSE /\ given = <<>>
  /\ calcStored = {}
  /\ calcOut = [nextNonce |-> NoNonce, acquiredNonces |-> {}]
  /\ snd = <<>> /\ kv = <<>> /\ wfm = <<>> /\ td = <<>> /\ acc = <<>>
  /\ \E cls \in RawClasses \cup CvcErrorClasses, message \in Texts :
       errs = [heap |-> <<ErrorObject(cls, message, NoCause)>>,
               input |-> 1,     \* the error given to mapError
               once |-> 0,      \* mapError(input), 0 before the call
               twice |-> 0]     \* mapError(mapError(input))

errorsFrame ==
  <<nodeVars, storeVars, procVars, calcVars, snd, kv, wfm, td, acc>>

\* mapError(heap[r]): the heap and the position returned
Mapped(heap, r) ==
  IF Wraps(Abstract(heap[r]))
  THEN [heap |-> Append(heap, InvalidNonceError(r)), result |-> Len(heap) + 1]
  ELSE [heap |-> heap, result |-> r]

E_mapError ==
  /\ errs.once = 0
  /\ LET m == Mapped(errs.heap, errs.input)
     IN errs' = [errs EXCEPT !.heap = m.heap, !.once = m.result]
  /\ UNCHANGED errorsFrame

E_mapErrorAgain ==
  /\ errs.once # 0 /\ errs.twice = 0
  /\ LET m == Mapped(errs.heap, errs.once)
     IN errs' = [errs EXCEPT !.heap = m.heap, !.twice = m.result]
  /\ UNCHANGED errorsFrame

ErrorsNext == E_mapError \/ E_mapErrorAgain

SpecErrors == ErrorsInit /\ [][ErrorsNext]_vars

-----------------------------------------------------------------------------
(* Claims about the nonce managers *)

\* two finished getNonceForAccount calls that overlapped in time and whose
\* nonces are both still held returned the same nonce
SameNonceTwice(p, q) ==
  /\ p # q /\ q \in overlap[p]
  /\ ret[p] # NoNonce /\ ret[p] = ret[q]

\* C1: for every interleaving of concurrent getNonceForAccount calls on the
\* same address, under both managers, no two of the calls return the same
\* nonce.
C1_ConcurrentAcquiresDistinct ==
  \A p, q \in Procs : ~SameNonceTwice(p, q)

\* the part of C1 that the code keeps: the single-holder in-memory manager
C1_InMemoryDistinct ==
  variant = "inmemory" => \A p, q \in Procs : ~SameNonceTwice(p, q)

C3_HeldNonceStaysStored ==
  \A p \in Procs : mine[p] \subseteq StoredSet

\* the part of C3 that the code keeps: the in-memory manager
C3_InMemoryHeldStored ==
  variant = "inmemory" => \A p \in Procs : mine[p] \subseteq StoredSet

-----------------------------------------------------------------------------
(* Claims about the sender and the builders *)

\* the manager assigned every nonce of the call
ManagerAssigned == snd.signTx /\ ~OptionsNonceGiven(snd.optNonce)

\* an externally signed single send, with a nonce from the manager, has
\* rejected because signing or the submission failed
SingleSendFailed ==
  /\ snd.kind = "send" /\ ManagerAssigned
  /\ snd.result = "rejected" /\ snd.failedAt \in {"sign", "send"}

ChainStepFailed ==
  /\ IsChain /\ snd.result = "rejected"
  /\ snd.failedAt \in {"send", "receipt"}

\* the nonces the release policy names for a failure of step k with error e
PolicyNonces(k, e) ==
  {snd.assigned[j] : j \in (k + 1)..snd.len}
    \cup (IF e.cls # "InvalidNonceError" THEN {snd.assigned[k]} ELSE {})

\* C6: when sendChain fails at step k with error e, the nonces released are
\* exactly those of the transactions after k, plus that of k if and only if e
\* is not an InvalidNonce; nonces of transactions already mined are kept.
C6_ChainReleasePolicy ==
  (ChainStepFailed /\ ManagerAssigned /\ snd.pendingRel = {}) =>
    /\ snd.released = PolicyNonces(snd.failedStep, snd.error)
    /\ \A j \in 1..snd.len :
         snd.assigned[j] \in StoredSet
           <=> snd.assigned[j] \notin PolicyNonces(snd.failedStep, snd.error)

\* the part of C6 that the code keeps: the promise revision of the sender
C6_PromiseRevision ==
  snd.rev = "promise" => C6_ChainReleasePolicy

\* C7: if step k of a chain fails at submission or while waiting for its
\* receipt, no transaction after k is submitted and sendChain rejects with
\* FailedTxChain whose list is the input transactions from k to the end and
\* whose cause is the error of step k.
C7_ChainFailureReport ==
  ChainStepFailed =>
    /\ snd.submitted = Transactions(snd.failedStep)
    /\ snd.rejection.error.cls = "FailedTxChainError"
    /\ snd.rejection.transactions =
         SubSeq(Transactions(snd.len), snd.failedStep, snd.len)
    /\ snd.rejection.cause = snd.error

\* the part of C7 that the code keeps: the promise revision of the sender
C7_PromiseRevision ==
  snd.rev = "promise" => C7_ChainFailureReport

\* C8: in sendChain transaction i+1 is handed to the node only after
\* transaction i was handed to it and its successful receipt received: the
\* submissions follow the list order and every submitted transaction but the
\* last is confirmed.
C8_ChainOneAtATime ==
  IsChain =>
    /\ \A j \in 1..Len(snd.submitted) : snd.submitted[j] = j
    /\ \A j \in 1..(Len(snd.submitted) - 1) : snd.submitted[j] \in snd.confirmed

\* the third transaction of a chain is at the node, the first two confirmed
C8_Witness ==
  /\ IsChain /\ snd.pc = "submitted"
  /\ Len(snd.submitted) = 3 /\ snd.confirmed = {1, 2}

C10_ChainBuildReleasesAll ==
  (IsChain /\ snd.signTx /\ snd.result = "rejected"
     /\ snd.failedAt = "assemble")
    => \A j \in 1..Len(snd.assigned) : snd.assigned[j] \notin StoredSet

\* the same for every build failure of entry k: a rejected nonce read, a
\* failed contract resolution, a throw while assembling
C10_AnyBuildFailure ==
  (IsChain /\ snd.signTx /\ snd.result = "rejected"
     /\ snd.failedAt \in {"nonce", "instance", "assemble"})
    => \A j \in 1..Len(snd.assigned) : snd.assigned[j] \notin StoredSet

\* a nonce was given in txOptions, whatever its value
OverrideGiven == snd.optNonce # NoNonce

\* C11: when a nonce override is given in the options, whatever its value, 0
\* included, the call acquires no nonce from the manager and releases none,
\* on success and on every failure: the stored set stays what it was.
C11_OverrideBypassesManager ==
  OverrideGiven =>
    /\ snd.assigned = <<>>
    /\ snd.released = {}
    /\ StoredSet = snd.stored0

\* the part of C11 that the code keeps: an override other than 0 is never
\* replaced by a nonce of the manager
C11_NonzeroOverrideNoAcquire ==
  OptionsNonceGiven(snd.optNonce) => snd.assigned = <<>> /\ ~snd.late

\* C12: in an externally signed send, a blob is handed to the node only if
\* every blob the signer returned recovers to the sender's address; with a
\* blob of another signer nothing is submitted, the call never resolves, and
\* it rejects with SignerSenderAddressMismatchError, which for a chain is the
\* cause of the FailedTxChainError.
C12_SignerMismatchStops ==
  snd.mismatch # 0 =>
    /\ snd.submitted = <<>>
    /\ snd.pc \in {"handleSendError", "done"}
    /\ snd.result # "resolved"
    /\ snd.result = "rejected" =>
         IF IsChain
         THEN /\ snd.rejection.error.cls = "FailedTxChainError"
              /\ snd.rejection.cause.cls = "SignerSenderAddressMismatchError"
         ELSE snd.rejection.error.cls = "SignerSenderAddressMismatchError"

\* a chain of three whose last blob only was signed with another key has
\* rejected with nothing submitted
C12_Witness ==
  /\ IsChain /\ snd.len = 3 /\ snd.mismatch = 3
  /\ snd.result = "rejected" /\ snd.submitted = <<>>

-----------------------------------------------------------------------------
(* Claims about the locking store and the lock-based manager's use of it *)

\* a step in which caller c asks for the lock of key k or tests it again
LockAttempt(c, k) ==
  \/ S_lock(c, k)
  \/ S_getLocking(c, k)
  \/ S_wake(c) /\ kv.key[c] = k

\* C13: for each key at most one lock acquisition is outstanding: while the
\* key is locked no lock call on it succeeds, it waits, and it gives up
\* without acquiring only when the key is still locked after all attempts.
C13_OneAcquisitionPerKey ==
  /\ [](\A k \in Keys :
          /\ Cardinality(kv.holders[k]) <= 1
          /\ kv.holders[k] # {} => kv.locked[k])
  /\ [][\A c \in Callers, k \in Keys :
          (LockAttempt(c, k) /\ kv.locked[k]) =>
            /\ kv'.locked[k] /\ kv'.holders[k] = kv.holders[k]
            /\ kv'.pc[c] = "sleeping" \/ kv'.last.res = "timeout"
            /\ kv'.pc[c] = "idle" =>
                 kv.pc[c] = "sleeping" /\ kv.attempts[c] + 1 >= MaxAttempts]_vars

\* a lock call has given up on a key another caller still holds
C13_Witness ==
  /\ kv.last.res = "timeout"
  /\ kv.locked[kv.last.key]
  /\ Cardinality(kv.holders[kv.last.key]) = 1
  /\ \A c \in Callers : kv.pc[c] = "idle"

\* C14: in the lock-based manager, when a step after the lock was acquired
\* fails (a node read, store.get, store.put), the lock of the address is
\* released when getNonceForAccount rejects, and no nonce is returned.
C14_FailureReleasesLock ==
  [][\A p \in Procs :
       (L_readFails(p) \/ L_storeGetFails(p) \/ L_storePutFails(p)) =>
         /\ ~locked'
         /\ ret'[p] = NoNonce
         /\ pc'[p] = "idle"]_vars

\* an acquire has failed while the other caller waits for the lock, which is
\* free again
C14_Witness ==
  \E p, q \in Procs :
    /\ failed[p] /\ pc[p] = "idle" /\ ret[p] = NoNonce
    /\ pc[q] = "locking" /\ ~locked

\* C15: every lock acquired on a key is freed in the end, even when its
\* holder calls neither put nor release: the watchdog frees it, so a locked
\* key always becomes free again.
C15_LockEventuallyFreed ==
  \A k \in Keys : kv.locked[k] ~> ~kv.locked[k]

\* the watchdog has freed a key while a caller still waits for it
C15_Witness ==
  /\ kv.last.op = "watchdog"
  /\ ~kv.locked[kv.last.key]
  /\ \E c \in Callers : kv.pc[c] = "sleeping" /\ kv.key[c] = kv.last.key

\* the lock state of the keys other than k is the same after the step
OtherLocksKept(k) ==
  \A j \in Keys \ {k} :
    kv'.locked[j] = kv.locked[j] /\ kv'.holders[j] = kv.holders[j]

\* C16: after put(key, v) or release(key) the key is free and a waiting lock
\* on it succeeds at its next test; put replaces the value of that key only,
\* release changes no value, and the locks of the other keys are untouched.
C16_PutReleaseFreeTheKey ==
  [][\A c \in Callers, k \in Keys :
       /\ \A v \in Values :
            S_put(c, k, v) =>
              /\ ~kv'.locked[k]
              /\ kv'.store = [kv.store EXCEPT ![k] = v]
              /\ OtherLocksKept(k)
       /\ S_release(c, k) =>
            /\ ~kv'.locked[k]
            /\ kv'.store = kv.store
            /\ OtherLocksKept(k)
       /\ (S_wake(c) /\ kv.key[c] = k /\ ~kv.locked[k]) =>
            kv'.holders[k] = {c} /\ kv'.pc[c] = "idle"]_vars

\* a put has freed a locked key another caller waits for, while the other
\* key stays locked
C16_Witness ==
  /\ kv.last.op = "put" /\ kv.last.res = "freed"
  /\ ~kv.locked[kv.last.key]
  /\ \E j \in Keys \ {kv.last.key} : kv.locked[j]
  /\ \E c \in Callers : kv.pc[c] = "sleeping" /\ kv.key[c] = kv.last.key

\* a step in which caller c calls get(k)
GetCall(c, k) == S_get(c, k) \/ S_getLocking(c, k)

\* C17: get(key) completes without waiting in every lock state of the key,
\* returns the stored value, or absent when there is none, and leaves the
\* lock state as it was.
C17_GetNeverWaits ==
  [][\A c \in Callers, k \in Keys :
       GetCall(c, k) =>
         /\ kv'.pc[c] = "idle"
         /\ kv'.last = Call("get", k, "ok", kv.store[k])
         /\ kv'.locked = kv.locked]_vars

\* the part of C17 that the code keeps: the get of revision lock neither
\* waits nor locks, and returns every stored value that is not falsy
C17_PlainGet ==
  [][\A c \in Callers, k \in Keys :
       (S_get(c, k) /\ kv.store[k] # 0) =>
         /\ kv'.pc[c] = "idle"
         /\ kv'.last = Call("get", k, "ok", kv.store[k])
         /\ kv'.locked = kv.locked]_vars

\* C18: releaseAccountNonces is atomic beside the acquires and releases of
\* another caller on the address: the listed nonces leave the stored object
\* the call works on all in one step, which is the step that stores it and
\* ends the call, so no other call finds only some of them removed; and when
\* the call ends none of the listed nonces is in the stored set.
C18_ReleaseManyAtomic ==
  [][/\ \A S \in SUBSET Nonces :
          IM_releaseAccountNonces(Releaser, S) => StoredSet' \cap S = {}
     /\ L_deleteAndPut(Releaser) => StoredSet' \cap arg[Releaser] = {}
     /\ (/\ pc[Releaser] = "releasing" /\ ref[Releaser] # NoObj
         /\ objs'[ref[Releaser]] \cap arg[Releaser]
              # objs[ref[Releaser]] \cap arg[Releaser])
          => /\ objs'[ref[Releaser]] \cap arg[Releaser] = {}
             /\ pc'[Releaser] = "idle"]_vars

\* the release of two nonces or more has ended, having overlapped a call of
\* the second caller, who holds a nonce
C18_Witness ==
  /\ mine[Releaser] = {} /\ pc[Releaser] = "idle"
  /\ Cardinality(Listed) >= 2 /\ Listed \cap StoredSet = {}
  /\ ~serial
  /\ \E p \in Procs \ {Releaser} : mine[p] # {}

\* the nonce of caller p came from an acquire that was in flight when
\* clearAccounts ran, and p still holds it
HeldAcrossClear(p) ==
  /\ "clear" \in overlap[p]
  /\ ret[p] # NoNonce /\ ret[p] \in mine[p]

\* C19: clearAccounts may run at any point of an acquire; the nonce that
\* acquire returns stays its caller's: while the caller holds it no other
\* caller of the address holds the same nonce.
C19_InFlightNonceStaysValid ==
  \A p \in Procs : HeldAcrossClear(p) =>
    \A q \in Procs \ {p} : ret[p] \notin mine[q]

\* the part of C19 that the code keeps: the in-memory manager
C19_InMemoryInFlight ==
  variant = "inmemory" => C19_InFlightNonceStaysValid

\* the nonce a manager with nothing stored returns under the node view
FreshNonce == calculateNonce({}, txCount, pending, queued).nextNonce

\* getNonceForAccount returns a nonce to caller p in this step
AcquireReturns(p) == ret[p] = NoNonce /\ ret'[p] # NoNonce

\* C20: clearAccounts leaves the stored set of the address empty, and the
\* first getNonceForAccount to return after it returns the nonce a fresh
\* manager returns under the same node view.
C20_ClearForgetsAll ==
  [][/\ (\E p \in Procs : IM_clearAccounts(p) \/ L_storeClear(p))
          => StoredSet' = {}
     /\ \A p \in Procs :
          (cleared /\ AcquireReturns(p)) => ret'[p] = FreshNonce]_vars

\* the part of C20 that the code keeps: the in-memory manager
C20_InMemoryClearForgets ==
  [][variant = "inmemory" =>
       /\ (\E p \in Procs : IM_clearAccounts(p)) => StoredSet' = {}
       /\ \A p \in Procs :
            (cleared /\ AcquireReturns(p)) => ret'[p] = FreshNonce]_vars

-----------------------------------------------------------------------------
(* Claims about release followed by acquire, and about the builders' chains *)

\* C21: a caller gets nonce n, gives it back with releaseAccountNonce, and
\* acquires again, with the node view unchanged and no other call on the
\* address from the first return to the second: the second acquire returns n.
C21_ReleasedNonceReturnedAgain ==
  [][\A p \in Procs :
       (given[p].phase = "back" /\ AcquireReturns(p))
         => ret'[p] = given[p].nonce]_vars

\* the second acquire has returned, beside a nonce another caller holds
C21_Witness ==
  \E p \in Procs :
    /\ given[p].phase = "again" /\ ret[p] = given[p].nonce
    /\ pc[p] = "idle"
    /\ \E q \in Procs \ {p} : mine[q] # {}

\* the nonce of the i-th raw transaction built so far
RawNonce(i) == Number(snd.rawTransactions[i].nonce)

\* a chain is being built with assignedNonce and without a nonce option
ChainWithAssignedNonces ==
  IsChain /\ snd.signTx /\ ~OptionsNonceGiven(snd.optNonce)

\* C22: with assignedNonce, createTxChain gives its raw transactions nonces
\* that are pairwise distinct, strictly increasing in list order and
\* contiguous (b, b+1, ..., b+n-1), for every stored set and mempool view.
C22_ChainNoncesContiguous ==
  ChainWithAssignedNonces =>
    \A i \in 1..Len(snd.rawTransactions) :
      /\ RawNonce(i) # NaN
      /\ i > 1 => RawNonce(i) = RawNonce(i - 1) + 1

\* the part of C22 that the code keeps: distinct and strictly increasing
C22_ChainNoncesIncreasing ==
  ChainWithAssignedNonces =>
    \A i, j \in 1..Len(snd.rawTransactions) :
      /\ RawNonce(i) # NaN
      /\ i < j => RawNonce(i) < RawNonce(j)

\* an externally signed chain
SignedChain == IsChain /\ snd.signTx

C24_LengthMismatchFails ==
  (SignedChain /\ snd.result = "resolved") =>
    /\ Len(snd.signed) = snd.len
    /\ snd.submitted = Transactions(snd.len)

\* the part of C24 that the code keeps: a chain that resolves has submitted
\* and confirmed every blob the callback returned
C24_ResolvedSubmittedAllSigned ==
  (SignedChain /\ snd.result = "resolved") =>
    /\ snd.submitted = snd.signed
    /\ snd.confirmed = {snd.signed[i] : i \in 1..Len(snd.signed)}

\* a send, or a sendChain of one transaction, has rejected because signing
\* or the submission failed
OneTransactionFailed ==
  /\ snd.kind \in {"send", "sendChain"} /\ snd.len = 1
  /\ snd.pc = "done" /\ snd.result = "rejected"
  /\ snd.failedAt \in {"sign", "send"}

\* what the caller of send observes when signing or the submission fails:
\* the error itself, and the manager's nonce out of the store unless the
\* error is an InvalidNonceError
SendFailureOutcome ==
  /\ snd.rejection.error = snd.error
  /\ ManagerAssigned =>
       (snd.assigned[1] \notin StoredSet
          <=> snd.error.cls # "InvalidNonceError")

\* C25: sendChain of one transaction is observationally equivalent to send
\* of that transaction: under the same signer and node behaviour the caller
\* gets the same error and the nonce store is left in the same state.
C25_ChainOfOneLikeSend ==
  OneTransactionFailed => SendFailureOutcome

\* the observation holds of send itself
C25_SendOutcome ==
  (OneTransactionFailed /\ snd.kind = "send") => SendFailureOutcome

\* an externally signed sendPlatformCoin, with a nonce from the manager, has
\* rejected because signing or the submission failed
TransferFailed ==
  /\ snd.kind = "sendPlatformCoin" /\ ManagerAssigned
  /\ snd.result = "rejected" /\ snd.failedAt \in {"sign", "send"}

\* C26: sendPlatformCoin follows the nonce rule of send: when an externally
\* signed transfer fails after its nonce was assigned and the error is not an
\* InvalidNonce, the nonce is out of the store when the error reaches the
\* caller.
C26_TransferReleasesNonce ==
  (TransferFailed /\ snd.rejection.error.cls # "InvalidNonceError")
    => snd.assigned[1] \notin StoredSet

\* the part of C26 that the code keeps: the promise revision of the sender
C26_PromiseRevision ==
  snd.rev = "promise" => C26_TransferReleasesNonce

\* no signing callback and no nonce option
NoCallback == ~snd.signTx /\ ~OptionsNonceGiven(snd.optNonce)

\* C27: without a signing callback send, sendChain and sendPlatformCoin build
\* their transactions without a nonce, call neither getNonceForAccount nor a
\* release of the nonce manager, and leave the stored set unchanged, on
\* success and on failure.
C27_NoCallbackNoManager ==
  NoCallback =>
    /\ \A i \in 1..Len(snd.rawTransactions) :
         snd.rawTransactions[i].nonce = Undefined
    /\ snd.assigned = <<>>
    /\ snd.released = {} /\ snd.pendingRel = {}
    /\ StoredSet = snd.stored0

\* the part of C27 that the code keeps: no nonce is built or acquired and the
\* stored set stays what it was; send and sendPlatformCoin call no release
C27_NoCallbackStoreUnchanged ==
  NoCallback =>
    /\ \A i \in 1..Len(snd.rawTransactions) :
         snd.rawTransactions[i].nonce = Undefined
    /\ snd.assigned = <<>>
    /\ StoredSet = snd.stored0
    /\ ~IsChain => snd.released = {}

-----------------------------------------------------------------------------
(* Claims about the receipt wait *)

\* C28: the receipt wait always settles: with the receipt once
\* getTransactionReceipt yields one, with a timeout failure when none appears
\* within the polls of the timeout, with the error when a
\* getTransactionReceipt call fails; it never stays pending for ever.
C28_ReceiptWaitSettles == <>(wfm.result # "pending")

\* the part of C28 that the code keeps: the wait settles unless a
\* getTransactionReceipt call has failed
C28_SettlesUnlessReadFails ==
  <>(wfm.result # "pending" \/ wfm.pc = "stuck")

\* and it settles as claimed: a rejection without a receipt and without a
\* submission error comes after attemptLimit + 1 polls that found nothing
C28_TimeoutAfterAllPolls ==
  (wfm.result = "rejected" /\ wfm.error.cls = "String") =>
    /\ wfm.status = "none"
    /\ wfm.polls = AttemptLimit(wfm.timeout) + 1

\* C29: waitForMine returns a receipt only if its status is success (numeric
\* 1); for every other receipt it fails with the 'Tx failed' error.
C29_OnlySuccessReceipts ==
  /\ wfm.result = "resolved" => StatusNumber(wfm.status) = 1
  /\ (wfm.pc = "done" /\ wfm.status # "none" /\ StatusNumber(wfm.status) # 1)
       => (wfm.result = "rejected" /\ wfm.error = Err("Error", FALSE))

\* the part of C29 that the code keeps: a receipt of status 0 is never
\* returned, one of status 1 always is
C29_ZeroStatusFails ==
  /\ wfm.result = "resolved" => StatusNumber(wfm.status) # 0
  /\ (wfm.pc = "done" /\ wfm.status = "0x0")
       => (wfm.result = "rejected" /\ wfm.error = Err("Error", FALSE))
  /\ (wfm.pc = "done" /\ wfm.status = "0x1") => wfm.result = "resolved"

-----------------------------------------------------------------------------
(* Claims about the transaction details *)

\* the nonces the node lists for the sender, whatever casing the caller used
PoolOfSender(subpool) ==
  td.result[subpool][Address(td.fromAddress.acct, "checksum")]

\* C30: getTransactionStatus(from, nonce) returns unsupported when the
\* inspect method is unsupported; else pending if the nonce is under
\* pending[from]; else queued if under queued[from]; else mined if nonce <
\* transaction count; else unknown.  A nonce in the pool is never reported
\* mined, and from is looked up in checksummed form.
C30_StatusByNonce ==
  (td.status # "none" /\ td.inspect # "error") =>
    td.status =
      IF td.inspect = "unsupported" THEN "unsupported"
      ELSE IF td.nonce \in PoolOfSender("pending") THEN "pending"
      ELSE IF td.nonce \in PoolOfSender("queued") THEN "queued"
      ELSE IF td.nonce < txCount THEN "mined"
      ELSE "unknown"

\* a nonce below the transaction count, listed as queued under the
\* checksummed address and asked for with the lower-case address, is queued
C30_Witness ==
  /\ td.status = "queued"
  /\ td.fromAddress.form = "lower"
  /\ td.nonce < txCount
  /\ \E k \in PoolKeys : k.acct # td.fromAddress.acct
                           /\ td.nonce \in td.result.pending[k]

-----------------------------------------------------------------------------
(* Claims about the error mapper *)

\* C33: mapError returns an InvalidNonceError with cause raw exactly when
\* raw's message matches, in any letter case, one of the patterns 'nonce',
\* 'replacement transaction underpriced' or 'known transaction'; every other
\* unclassified error is passed on as it is.
C33_NonceErrorsAnyCase ==
  (errs.once # 0 /\ errs.heap[errs.input].cls \in RawClasses) =>
    IF errs.heap[errs.input].message.phrase \in NoncePhrases
    THEN /\ errs.heap[errs.once].cls = "InvalidNonceError"
         /\ errs.heap[errs.once].cause = errs.input
    ELSE errs.once = errs.input

\* the same for messages written as the pattern spells them; any other
\* message is passed on
C33_NonceErrorsLowerCase ==
  (errs.once # 0 /\ errs.heap[errs.input].cls \in RawClasses) =>
    IF /\ errs.heap[errs.input].message.phrase \in NoncePhrases
       /\ errs.heap[errs.input].message.casing = "lower"
    THEN /\ errs.heap[errs.once].cls = "InvalidNonceError"
         /\ errs.heap[errs.once].cause = errs.input
    ELSE errs.once = errs.input

\* C34: mapError(mapError(e)) is the same error as mapError(e): a mapped
\* error is returned unchanged and never wrapped a second time.
C34_MapErrorIdempotent ==
  errs.twice # 0 =>
    /\ errs.twice = errs.once
    /\ \A r \in DOMAIN errs.heap :
         errs.heap[r].cause # NoCause
           => errs.heap[errs.heap[r].cause].cls \in RawClasses

\* a raw nonce error was wrapped, and mapping the wrapper returned the wrapper
C34_Witness ==
  /\ errs.twice # 0
  /\ errs.once # errs.input
  /\ errs.heap[errs.once].cause = errs.input

-----------------------------------------------------------------------------
(* Claims about the addresses and the node's txpool.inspect *)

\* C31: when the node answers txpool.inspect with 'method not supported',
\* getNonceForAccount does not fail for it and leaves no lock held: it
\* returns the nonce calculated from the transaction count and the stored
\* set alone, as for an empty mempool.
C31_UnsupportedInspectIsEmptyPool ==
  acc.inspect = "unsupported" =>
    /\ acc.pc = "idle" => acc.locked = {}
    /\ acc.last.outcome = "rejected" => acc.last.cause = "count"
    /\ acc.last.outcome = "returned" =>
         acc.last.nonce =
           calculateNonce(acc.last.stored, txCount, {}, {}).nextNonce

\* NonceManager returned a nonce past a stored one although the node, which
\* does not support txpool.inspect, has a pending transaction of the account
C31_Witness ==
  /\ acc.inspect = "unsupported" /\ acc.manager = "lock"
  /\ acc.last.outcome = "returned"
  /\ acc.last.stored # {}
  /\ acc.result.pending[toChecksumAddress(acc.last.address)] # {}
  /\ acc.locked = {}

\* C32: the nonce bookkeeping is keyed by the checksummed address: acquires
\* naming one account in different letter case share one stored set and one
\* mempool view, and never receive a nonce that is still handed out for the
\* account.
C32_SpellingsShareOneAccount ==
  acc.last.outcome = "returned" => acc.last.fresh

\* acquires that spell the account the same way never receive a nonce that
\* is still handed out
C32_SameSpellingDistinct ==
  (acc.last.outcome = "returned" /\ ~acc.last.fresh) =>
    \E a \in Addresses :
      a.acct = acc.last.address.acct /\ a # acc.last.address /\ acc.store[a] # {}

\* AccountInspector looks the mempool up by the checksummed address
C32_InspectorChecksums ==
  (acc.manager = "inmemory" /\ acc.inspect = "ok"
     /\ acc.last.outcome = "returned") =>
    acc.last.nonce \notin
      acc.result.pending[toChecksumAddress(acc.last.address)]

-----------------------------------------------------------------------------
(* Claims about the order of release and rejection, and about late signers *)

\* sendChain has rejected with a FailedTxChainError
ChainRejected ==
  /\ IsChain /\ snd.result = "rejected"
  /\ snd.rejection.error.cls = "FailedTxChainError"

\* C36: when sendChain's rejection with FailedTxChainError is observable,
\* every release the failure handler made has taken effect in the store: an
\* acquire issued right then sees all of those nonces as free.
C36_ReleasedBeforeRejection ==
  (ChainRejected /\ ManagerAssigned) =>
    /\ snd.pendingRel = {}
    /\ snd.released \cap StoredSet = {}

\* the same where the handler awaits the releases (the async revision) or
\* the release itself has no await (InMemoryNonceManager)
C36_AwaitedRelease ==
  (snd.rev = "async" \/ variant = "inmemory") => C36_ReleasedBeforeRejection

\* a getNonceForAccount of NonceManager is between store.lock and store.put
HoldsLock(p) == pc[p] \in {"reading", "computing"}

\* C37: a releaseAccountNonce or releaseAccountNonces running beside an
\* in-flight getNonceForAccount on the same address never frees the lock
\* that call holds.
C37_ReleaseKeepsTheLock ==
  [][\A q \in Procs :
       (pc[q] = "releasing" /\ pc'[q] = "idle"
          /\ locked /\ \E p \in Procs \ {q} : HoldsLock(p))
         => locked']_vars

\* a release that finds no stored value does no put and frees nothing
C37_ReleaseWithoutValue ==
  [][\A q \in Procs :
       (pc[q] = "releasing" /\ pc'[q] = "idle" /\ ref[q] = NoObj)
         => locked' = locked]_vars

\* signing has failed with the TimeoutError of util.timeout
SigningTimedOut == snd.failedAt = "sign" /\ snd.error.cls = "TimeoutError"

\* C38: once signing has timed out in send, sendPlatformCoin or sendChain, no
\* transaction of the call is ever handed to the node, also when the signing
\* callback completes later; the nonce released on the timeout is not used
\* by a late submission.
C38_NoSubmissionAfterSigningTimeout ==
  SigningTimedOut =>
    /\ snd.submitted = <<>>
    /\ snd.pc \in {"handleSendError", "done"}
    /\ snd.confirmed = {}

\* the call rejected on the timeout and released its nonce, and the callback
\* completed afterwards
C38_Witness ==
  /\ SigningTimedOut /\ ManagerAssigned
  /\ snd.result = "rejected"
  /\ snd.released # {}
  /\ snd.signer = "done"

-----------------------------------------------------------------------------
(* Claims about a builder whose contract cannot be resolved *)

\* createTx rejected because tx.contractInstance rejected, and the
\* getNonceForAccount it started beside it has resolved
InstanceFailedNonceAcquired ==
  /\ snd.failedAt = "instance" /\ ManagerAssigned
  /\ ~snd.late
  /\ Len(snd.assigned) = snd.failedStep

\* C39: when createTx with assignedNonce rejects because the contract cannot
\* be resolved while the nonce acquisition started beside it succeeds, before
\* or after the rejection, the acquired nonce does not stay in the store.
C39_InstanceFailureFreesNonce ==
  InstanceFailedNonceAcquired =>
    snd.assigned[Len(snd.assigned)] \notin StoredSet

\* such a failure calls no release at all
C39_InstanceFailureReleasesNothing ==
  snd.failedAt = "instance" => snd.released = {}

-----------------------------------------------------------------------------
(* Claims about clearing the key-value store *)

\* C40: after clear() the store holds no value and no key is locked: every
\* lock outstanding at the clear is freed and its watchdog cancelled, so a
\* lock of any key right after the clear takes it without waiting.
C40_ClearFreesEveryLock ==
  kv.last.op = "clear" =>
    \A k \in Keys :
      /\ kv.store[k] = NoObj
      /\ ~IsLocked(kv, k)
      /\ ~kv.timer[k]
      /\ kv.holders[k] = {}

\* the same for the store whose clear walks the keys of this.locked
C40_LockingGetRevision ==
  kv.rev = "getlock" => C40_ClearFreesEveryLock

\* in either revision no value is left after clear()
C40_ClearEmptiesValues ==
  kv.last.op = "clear" => \A k \in Keys : kv.store[k] = NoObj

-----------------------------------------------------------------------------
(* Claims about queued transactions *)

\* the stored nonces the acquire of caller p calculates from
StoredSeen(p) ==
  IF variant = "inmemory" THEN StoredSet
  ELSE IF ref[p] = NoObj THEN {} ELSE objs[ref[p]]

\* C35: the nonce calculation ignores queued transactions: the nonce
\* getNonceForAccount returns is the one it would return with an empty
\* queued sub-pool.
C35_QueuedIgnored ==
  [][\A p \in Procs :
       (ret[p] = NoNonce /\ ret'[p] # NoNonce) =>
         ret'[p] = calculateNonce(StoredSeen(p), txCount, pending, {}).nextNonce]_vars

\* the same while nothing is stored for the address: the queued nonce lies
\* past a gap that the scan stops at
C35_QueuedIgnoredNothingStored ==
  [][\A p \in Procs :
       (ret[p] = NoNonce /\ ret'[p] # NoNonce /\ StoredSeen(p) = {}) =>
         ret'[p] = calculateNonce({}, txCount, pending, {}).nextNonce]_vars

====
